---- MODULE Spec2Model ----
(***************************************************************************)
(* Transaction scoring of the personal-finance server: the rule-based      *)
(* fraud check (detectFraud), the merchant categorizer                     *)
(* (categorizeTransaction), the financial health score                     *)
(* (calculateFinancialHealth), the dataset-pattern cache they run beside,  *)
(* and the transaction routes that call them.                              *)
(*                                                                         *)
(* Conventions of the model                                                *)
(*   - a JavaScript number is an integer count of thousandths (Units(1) is *)
(*     1.000), or NaN;                                                     *)
(*   - a Date is an integer count of minutes, or NaN for an Invalid Date;  *)
(*     Date.now() is the variable now, read once per call (detectFraud has *)
(*     no await inside, a call takes far less than a minute);              *)
(*   - a decimal amount string is a record [valid, whole, milli];          *)
(*     parseFloat turns it into a number;                                  *)
(*   - undefined and null are the strings "undefined" and "null"; the null *)
(*     dataset cache is the record NoPatterns.                             *)
(***************************************************************************)
EXTENDS Integers, Sequences, FiniteSets, TLC

VARIABLES
    now,                \* wall clock, Date.now()
    cachedPatterns,     \* dataset-initialization.ts: let cachedPatterns
    transaction,        \* detectFraud: the candidate transaction
    recentTransactions, \* detectFraud: the user's history passed in
    fraudCheck,         \* detectFraud: the FraudCheckResult returned
    checkedUnder,       \* whether the cache was null at the calls of detectFraud so far
    merchantArg,        \* categorizeTransaction: the merchant argument
    amountArg,          \* categorizeTransaction: the amount argument
    categoryOut,        \* categorizeTransaction: the category returned
    transactions,       \* calculateFinancialHealth: the transaction list
    monthlyIncome,      \* calculateFinancialHealth: the monthly income
    health,             \* calculateFinancialHealth: the components returned
    divisions,          \* calculateFinancialHealth: the divisions the call evaluated
    users,              \* MemStorage.users
    stored,             \* MemStorage.transactions, in insertion order
    financialHealth,    \* MemStorage.financialHealth, in insertion order
    nextId,             \* the ids randomUUID() has handed out
    requests,           \* the API requests served
    ticks,              \* the clock advances so far
    analysisTransactions,  \* analyzeFraudWithLLM: the transactions argument
    apiKey,             \* analyzeFraudWithLLM: the apiKey argument
    geminiResponse,     \* what the Gemini endpoint answered to the call
    analysis,           \* analyzeFraudWithLLM: the result, or the error it threw
    fetchCalls,         \* the calls of fetch one invocation made
    pretrainedPatterns,  \* detectFraudPatterns: what getPretrainedPatterns() returned
    datasetCsv,          \* initializeDatasetPatterns: the records of the dataset CSV, if one is found
    request,            \* the API request served last
    res,                 \* the status of the response to it
    upserts,             \* the calls of createOrUpdateFinancialHealth in progress
    phase,              \* registerRoutes: before or after the startup initialization
    initReturn,         \* what initializeDatasetPatterns returned at startup
    cacheWrites,        \* the assignments to cachedPatterns so far
    systemStatus,        \* the last answer of GET /api/system/status
    posts               \* the POST /api/transactions requests in progress, each at one of its awaits

fraudVars == <<transaction, recentTransactions, fraudCheck, checkedUnder>>

categorizeVars == <<merchantArg, amountArg, categoryOut>>

healthVars == <<transactions, monthlyIncome, health, divisions>>

storageVars == <<users, stored, financialHealth, nextId, requests, ticks>>

analysisVars ==
    <<analysisTransactions, apiKey, geminiResponse, analysis, fetchCalls,
      pretrainedPatterns>>

datasetVars == <<datasetCsv>>

routeVars == <<request, res>>

upsertVars == <<upserts>>

processVars == <<phase, initReturn, cacheWrites, systemStatus>>

overlapVars == <<posts>>

vars == <<now, cachedPatterns, fraudVars, categorizeVars, healthVars,
          storageVars, analysisVars, datasetVars,
          routeVars,
          upsertVars,
          processVars,
          overlapVars>>

-----------------------------------------------------------------------------
(* Numbers, dates, strings *)

\* The number NaN (parseFloat of a non-numeric string, getTime() of an
\* Invalid Date); every comparison with it is false.
NaN == 0 - 2000000000

Undefined == "undefined"
Null == "null"

\* x whole units, in thousandths
Units(x) == x * 1000

Minutes(n) == n
Hours(n) == n * 60

Abs(x) == IF x < 0 THEN 0 - x ELSE x

\* a > b, a <= b, a < b on JavaScript numbers
FGt(a, b) == a # NaN /\ b # NaN /\ a > b
FLe(a, b) == a # NaN /\ b # NaN /\ a <= b
FLt(a, b) == a # NaN /\ b # NaN /\ a < b
\* a - b on JavaScript numbers
FSub(a, b) == IF a = NaN \/ b = NaN THEN NaN ELSE a - b
\* Math.abs
FAbs(a) == IF a = NaN THEN NaN ELSE Abs(a)

\* parseFloat(t.amount as string)
parseFloat(s) == IF s.valid THEN Units(s.whole) + s.milli ELSE NaN

\* new Date(d).getTime()
getTime(d) == d

\* One character of String.prototype.toLowerCase
LowerChar(c) ==
    CASE c = "A" -> "a" [] c = "B" -> "b" [] c = "C" -> "c" [] c = "D" -> "d"
      [] c = "E" -> "e" [] c = "F" -> "f" [] c = "G" -> "g" [] c = "H" -> "h"
      [] c = "I" -> "i" [] c = "J" -> "j" [] c = "K" -> "k" [] c = "L" -> "l"
      [] c = "M" -> "m" [] c = "N" -> "n" [] c = "O" -> "o" [] c = "P" -> "p"
      [] c = "Q" -> "q" [] c = "R" -> "r" [] c = "S" -> "s" [] c = "T" -> "t"
      [] c = "U" -> "u" [] c = "V" -> "v" [] c = "W" -> "w" [] c = "X" -> "x"
      [] c = "Y" -> "y" [] c = "Z" -> "z" [] OTHER -> c

RECURSIVE toLowerCase(_)
toLowerCase(s) ==
    IF Len(s) = 0 THEN ""
    ELSE LowerChar(SubSeq(s, 1, 1)) \o toLowerCase(SubSeq(s, 2, Len(s)))

\* String.prototype.includes
includes(s, kw) ==
    \E i \in 1..(Len(s) - Len(kw) + 1) : SubSeq(s, i, i + Len(kw) - 1) = kw

-----------------------------------------------------------------------------
(* categorizeTransaction *)

\* const merchantLower = merchant.toLowerCase() with the call left out
merchantAsWritten(m) == m

\* const merchantLower = merchant.toLowerCase()
merchantLowerOf(m) == toLowerCase(m)

categorizeTransaction(m, amt) ==
    LET merchantLower == merchantLowerOf(m) IN
    IF \/ includes(merchantLower, "restaurant")
       \/ includes(merchantLower, "cafe")
       \/ includes(merchantLower, "coffee")
       \/ includes(merchantLower, "pizza")
       \/ includes(merchantLower, "burger")
       \/ includes(merchantLower, "food")
       \/ includes(merchantLower, "grubhub")
       \/ includes(merchantLower, "doordash")
       \/ includes(merchantLower, "ubereats")
    THEN "Food & Dining"
    ELSE IF \/ includes(merchantLower, "grocery")
            \/ includes(merchantLower, "supermarket")
            \/ includes(merchantLower, "walmart")
            \/ includes(merchantLower, "target")
            \/ includes(merchantLower, "whole foods")
            \/ includes(merchantLower, "trader joe")
    THEN "Groceries"
    ELSE IF \/ includes(merchantLower, "uber")
            \/ includes(merchantLower, "lyft")
            \/ includes(merchantLower, "taxi")
            \/ includes(merchantLower, "gas")
            \/ includes(merchantLower, "fuel")
            \/ includes(merchantLower, "parking")
    THEN "Transportation"
    ELSE IF \/ includes(merchantLower, "amazon")
            \/ includes(merchantLower, "ebay")
            \/ includes(merchantLower, "mall")
            \/ includes(merchantLower, "store")
    THEN "Shopping"
    ELSE IF \/ includes(merchantLower, "netflix")
            \/ includes(merchantLower, "spotify")
            \/ includes(merchantLower, "hulu")
            \/ includes(merchantLower, "cinema")
            \/ includes(merchantLower, "theater")
            \/ includes(merchantLower, "movie")
    THEN "Entertainment"
    ELSE IF \/ includes(merchantLower, "electric")
            \/ includes(merchantLower, "water")
            \/ includes(merchantLower, "internet")
            \/ includes(merchantLower, "phone")
            \/ includes(merchantLower, "verizon")
            \/ includes(merchantLower, "at&t")
    THEN "Utilities"
    ELSE IF \/ includes(merchantLower, "pharmacy")
            \/ includes(merchantLower, "hospital")
            \/ includes(merchantLower, "doctor")
            \/ includes(merchantLower, "medical")
            \/ includes(merchantLower, "cvs")
            \/ includes(merchantLower, "walgreens")
    THEN "Healthcare"
    ELSE IF \/ includes(merchantLower, "airline")
            \/ includes(merchantLower, "hotel")
            \/ includes(merchantLower, "airbnb")
            \/ includes(merchantLower, "booking")
    THEN "Travel"
    ELSE "Other"

NoCategory == "not called"

CategorizeIdle ==
    /\ merchantArg = ""
    /\ amountArg = NaN
    /\ categoryOut = NoCategory

-----------------------------------------------------------------------------
(* calculateFinancialHealth *)

(* A real number is a reduced fraction <<n, d>> with d > 0; <<0, 0>> is NaN   *)
(* and <<1, 0>> is +Infinity.  JavaScript computes in binary floating point:  *)
(* the model computes exactly, which agrees except where a value falls        *)
(* within rounding error of a rounding boundary.                              *)

RECURSIVE Gcd(_, _)
Gcd(a, b) == IF b = 0 THEN a ELSE Gcd(b, a % b)

NaNFrac == <<0, 0>>
Infinity == <<1, 0>>
IsNaNFrac(v) == v = NaNFrac

\* n / d for d # 0
Frac(n, d) ==
    LET g == Gcd(Abs(n), Abs(d))
        sgn == IF d < 0 THEN 0 - 1 ELSE 1
    IN <<(sgn * n) \div g, (sgn * d) \div g>>

\* a / b on JavaScript numbers
FDiv(a, b) ==
    IF a = NaN \/ b = NaN THEN NaNFrac
    ELSE IF b = 0 THEN (IF a > 0 THEN Infinity ELSE NaNFrac)
    ELSE Frac(a, b)

\* 100 - v * 100
HundredMinusPercent(v) ==
    IF IsNaNFrac(v) THEN NaNFrac ELSE Frac(100 * v[2] - 100 * v[1], v[2])

\* v * 100
Percent(v) == IF IsNaNFrac(v) THEN NaNFrac ELSE Frac(100 * v[1], v[2])

\* Math.max(0, v)
Max0(v) == IF IsNaNFrac(v) THEN NaNFrac ELSE IF v[1] < 0 THEN <<0, 1>> ELSE v

\* Math.min(100, v)
Min100(v) ==
    IF IsNaNFrac(v) THEN NaNFrac
    ELSE IF v = Infinity \/ v[1] > 100 * v[2] THEN <<100, 1>>
    ELSE v

\* Math.round(v): the nearest integer, halves upwards
Round(v) ==
    IF IsNaNFrac(v) THEN NaN ELSE (2 * v[1] + v[2]) \div (2 * v[2])

\* a + b
FracAdd(a, b) ==
    IF IsNaNFrac(a) \/ IsNaNFrac(b) THEN NaNFrac
    ELSE Frac(a[1] * b[2] + b[1] * a[2], a[2] * b[2])

\* v * w / 100, the weight w given in hundredths
Weighted(v, w) == IF IsNaNFrac(v) THEN NaNFrac ELSE Frac(w * v[1], 100 * v[2])

\* .reduce((sum, t) => sum + parseFloat(t.amount as string), 0)
RECURSIVE sumAmounts(_)
sumAmounts(ts) ==
    IF ts = <<>> THEN 0
    ELSE LET a == parseFloat(Head(ts).amount)
             rest == sumAmounts(Tail(ts))
         IN IF a = NaN \/ rest = NaN THEN NaN ELSE a + rest

\* threeMonthsAgo.setMonth(threeMonthsAgo.getMonth() - 3), a month taken as
\* 30 days
threeMonthsAgo == now - Hours(24) * 90

\* The test of the first return, with && written for ||
shortCircuitBoth(txs, income) == Len(txs) = 0 /\ income = 0

\* transactions.length === 0 || monthlyIncome === 0
shortCircuit(txs, income) == Len(txs) = 0 \/ income = 0

DefaultHealth ==
    [score |-> 50, incomeStability |-> 50, expenseRatio |-> 50,
     savingsRate |-> 50, debtRatio |-> 50, liquidity |-> 50]

healthRecentTransactions(txs) ==
    SelectSeq(txs, LAMBDA t : FLe(threeMonthsAgo, getTime(t.date)))

isDebtCategory(t) ==
    \/ includes(toLowerCase(t.category), "loan")
    \/ includes(toLowerCase(t.category), "debt")
    \/ includes(toLowerCase(t.category), "credit")

windowIncome(txs) ==
    sumAmounts(SelectSeq(healthRecentTransactions(txs),
                         LAMBDA t : t.type = "income"))

windowExpenses(txs) ==
    sumAmounts(SelectSeq(healthRecentTransactions(txs),
                         LAMBDA t : t.type = "expense"))

\* The components before rounding
healthComponents(txs, income) ==
    LET recent == healthRecentTransactions(txs)
        incomeCount == Len(SelectSeq(recent, LAMBDA t : t.type = "income"))
        incomeStability ==
            IF incomeCount >= 3 THEN 85
            ELSE IF incomeCount * 20 < 100 THEN incomeCount * 20 ELSE 100
        expenses == windowExpenses(txs)
        expenseRatioValue ==
            IF FGt(income, 0) THEN FDiv(expenses, income * 3) ELSE <<1, 1>>
        incomeSum == windowIncome(txs)
        savingsAmount == FSub(incomeSum, expenses)
        savingsRateValue ==
            IF FGt(incomeSum, 0) THEN FDiv(savingsAmount, incomeSum) ELSE <<0, 1>>
        debtPayments == sumAmounts(SelectSeq(recent, isDebtCategory))
        debtRatioValue ==
            IF FGt(income, 0) THEN FDiv(debtPayments, income * 3) ELSE <<0, 1>>
        \* savingsAmount / (expenses / 3)
        liquidityMonths ==
            IF FGt(savingsAmount, 0) THEN FDiv(3 * savingsAmount, expenses)
            ELSE <<0, 1>>
        \* (liquidityMonths / 6) * 100
        liquidityPercent ==
            IF liquidityMonths = Infinity THEN Infinity
            ELSE Frac(100 * liquidityMonths[1], 6 * liquidityMonths[2])
    IN [incomeStability |-> <<incomeStability, 1>>,
        expenseRatio |-> Max0(HundredMinusPercent(expenseRatioValue)),
        savingsRate |-> Max0(Min100(Percent(savingsRateValue))),
        debtRatio |-> Max0(HundredMinusPercent(debtRatioValue)),
        liquidity |-> Min100(liquidityPercent)]

\* Math.max(0, Math.min(100, score))
clampScore(x) == IF x = NaN THEN NaN ELSE IF x > 100 THEN 100 ELSE IF x < 0 THEN 0 ELSE x

calculateFinancialHealth(txs, income) ==
    IF shortCircuit(txs, income) THEN DefaultHealth
    ELSE LET c == healthComponents(txs, income)
             score ==
                 Round(FracAdd(Weighted(c.incomeStability, 20),
                       FracAdd(Weighted(c.expenseRatio, 25),
                       FracAdd(Weighted(c.savingsRate, 25),
                       FracAdd(Weighted(c.debtRatio, 15),
                               Weighted(c.liquidity, 15))))))
         IN [score |-> clampScore(score),
             incomeStability |-> Round(c.incomeStability),
             expenseRatio |-> Round(c.expenseRatio),
             savingsRate |-> Round(c.savingsRate),
             debtRatio |-> Round(c.debtRatio),
             liquidity |-> Round(c.liquidity)]

\* The division expressions one call evaluates
divisionsOf(txs, income) ==
    IF shortCircuit(txs, income) THEN {}
    ELSE {"expenses / 3", "liquidityMonths / 6"}
         \cup (IF FGt(income, 0)
               THEN {"expenses / (monthlyIncome * 3)",
                     "debtPayments / (monthlyIncome * 3)"}
               ELSE {})
         \cup (IF FGt(windowIncome(txs), 0) THEN {"savingsAmount / income"} ELSE {})
         \cup (IF FGt(FSub(windowIncome(txs), windowExpenses(txs)), 0)
               THEN {"savingsAmount / monthlyExpenses"}
               ELSE {})

NoHealth ==
    [score |-> 0 - 1, incomeStability |-> 0 - 1, expenseRatio |-> 0 - 1,
     savingsRate |-> 0 - 1, debtRatio |-> 0 - 1, liquidity |-> 0 - 1]

HealthIdle ==
    /\ transactions = <<>>
    /\ monthlyIncome = 0
    /\ health = NoHealth
    /\ divisions = {}

-----------------------------------------------------------------------------
(* The dataset-pattern cache *)

\* cachedPatterns = null
NoPatterns == [none |-> TRUE]

\* DatasetPatterns values the cache can hold (the fields the readers use)
SamplePatterns ==
    { [patterns |-> <<>>, highRiskMerchants |-> {}],
      [patterns |-> <<[pattern |-> "Amount: >100k", frequency |-> 10,
                       fraudRiskScore |-> 80]>>,
       highRiskMerchants |-> {"uber", "zara"}] }

\* setPretrainedPatterns(patterns)
SetPretrainedPatterns(p) ==
    /\ cachedPatterns' = p
    /\ UNCHANGED <<now, fraudVars, categorizeVars, healthVars, storageVars,
                   analysisVars,
                   datasetVars,
                   routeVars,
                   upsertVars,
                   processVars,
                   overlapVars>>

-----------------------------------------------------------------------------
(* detectFraud *)

NoResult == [isFraudulent |-> FALSE, reason |-> "not called", riskScore |-> 0 - 1]

\* (Date.now() - new Date(t.date).getTime()), in minutes
sinceDate(t) == FSub(now, getTime(t.date))

\* Rule 3 window measured by the time of insertion instead of the date
last24HoursByCreatedAt(recent) ==
    SelectSeq(recent, LAMBDA t : FLe(FSub(now, t.createdAt), Hours(24)))

\* Rule 3 window
last24Hours(recent) ==
    SelectSeq(recent, LAMBDA t : FLe(sinceDate(t), Hours(24)))

\* Rule 4 window
last5Minutes(recent) ==
    SelectSeq(recent, LAMBDA t : FLe(sinceDate(t), Minutes(5)))

\* Rule 5 with the merchants compared as written (toLowerCase forgotten)
merchantFrequencyCaseSensitive(tx, recent) ==
    SelectSeq(recent, LAMBDA t : t.merchant = tx.merchant)

\* Rule 5
merchantFrequency(tx, recent) ==
    SelectSeq(recent,
              LAMBDA t : toLowerCase(t.merchant) = toLowerCase(tx.merchant))

\* Rule 6
duplicates(tx, recent) ==
    SelectSeq(recent,
              LAMBDA t :
                  /\ FLe(sinceDate(t), Hours(1))
                  /\ toLowerCase(t.merchant) = toLowerCase(tx.merchant)
                  /\ FLt(FAbs(FSub(parseFloat(t.amount), parseFloat(tx.amount))),
                         Units(1) \div 100))

\* risks.push(...) when the rule's condition holds
PushIf(cond, reason, score) ==
    IF cond THEN <<[reason |-> reason, score |-> score]>> ELSE <<>>

\* The risks array after the six rules, in push order
risksOf(tx, recent) ==
    LET amount == parseFloat(tx.amount) IN
       PushIf(FGt(amount, Units(50000)),
              "Unusually large transaction amount", 55)
    \o PushIf(FGt(amount, Units(100000)),
              "Extremely large transaction amount", 85)
    \o PushIf(Len(last24Hours(recent)) >= 20,
              "High transaction velocity (20+ transactions in 24 hours)", 70)
    \o PushIf(Len(last5Minutes(recent)) >= 10,
              "Multiple rapid transactions (10+ in 5 minutes)", 80)
    \o PushIf(Len(merchantFrequency(tx, recent)) = 0 /\ FGt(amount, Units(10000)),
              "First-time merchant with large amount", 40)
    \o PushIf(Len(duplicates(tx, recent)) > 0,
              "Potential duplicate transaction", 90)

RECURSIVE SumScores(_)
SumScores(risks) ==
    IF risks = <<>> THEN 0 ELSE Head(risks).score + SumScores(Tail(risks))

\* The scores added up instead of their maximum
sumRiskScoreOf(risks) == SumScores(risks)

\* The first risk pushed instead of the largest
firstRiskScoreOf(risks) == IF Len(risks) > 0 THEN risks[1].score ELSE 0

\* Math.max(...risks.map(r => r.score)), 0 for no risk
maxRiskScoreOf(risks) ==
    IF Len(risks) > 0
    THEN CHOOSE m \in {risks[i].score : i \in 1..Len(risks)} :
             \A i \in 1..Len(risks) : risks[i].score <= m
    ELSE 0

\* risks.find(r => r.score === maxRiskScore)?.reason
findReason(risks, maxRiskScore) ==
    LET hits == {i \in 1..Len(risks) : risks[i].score = maxRiskScore} IN
    IF hits = {} THEN Undefined
    ELSE risks[CHOOSE i \in hits : \A j \in hits : i <= j].reason

\* The reason reported whatever the verdict
reasonAlways(isFraudulent, risks, maxRiskScore) ==
    findReason(risks, maxRiskScore)

\* The reason field of the result
reasonOf(isFraudulent, risks, maxRiskScore) ==
    IF isFraudulent THEN findReason(risks, maxRiskScore) ELSE Undefined

\* detectFraud consulting the cached high-risk merchants
detectFraudWithPatterns(tx, recent) ==
    LET risks ==
            risksOf(tx, recent)
            \o PushIf(/\ cachedPatterns # NoPatterns
                      /\ toLowerCase(tx.merchant) \in cachedPatterns.highRiskMerchants,
                      "Known high-risk merchant", 95)
        maxRiskScore == maxRiskScoreOf(risks)
        isFraudulent == maxRiskScore >= 85
    IN [isFraudulent |-> isFraudulent,
        reason |-> reasonOf(isFraudulent, risks, maxRiskScore),
        riskScore |-> maxRiskScore]

detectFraud(tx, recent) ==
    LET risks == risksOf(tx, recent)
        maxRiskScore == maxRiskScoreOf(risks)
        isFraudulent == maxRiskScore >= 85
    IN [isFraudulent |-> isFraudulent,
        reason |-> reasonOf(isFraudulent, risks, maxRiskScore),
        riskScore |-> maxRiskScore]

-----------------------------------------------------------------------------
(* MemStorage *)

\* API requests served in one behaviour
MaxRequests == 2

\* Transactions storage holds at most
MaxStored == 22

\* Records in one uploaded file
MaxRecords == 21

\* Clock advances in one behaviour
MaxTicks == 1

\* The clock advances by 25 hours
TickStep == Hours(25)

\* A null decimal column
NullDecimal == [null |-> TRUE]

\* new MemStorage()
StorageEmpty ==
    /\ users = {}
    /\ stored = <<>>
    /\ financialHealth = <<>>
    /\ nextId = 1
    /\ requests = 0
    /\ ticks = 0

\* No call of analyzeFraudWithLLM yet
NoAnalysis == [none |-> TRUE]
NoResponse == [kind |-> "not called"]
NotRead == [read |-> FALSE]

AnalysisIdle ==
    /\ analysisTransactions = <<>>
    /\ apiKey = ""
    /\ geminiResponse = NoResponse
    /\ analysis = NoAnalysis
    /\ fetchCalls = 0
    /\ pretrainedPatterns = NotRead

\* No dataset ZIP among the attached assets
NoDataset == [found |-> FALSE, csv |-> "none", records |-> <<>>]

\* A ZIP file in which no CSV header line is found
NoCsvInDataset == [found |-> TRUE, csv |-> "none", records |-> <<>>]

\* A ZIP file with a header line and text after it that parseCSV rejects
MalformedDataset == [found |-> TRUE, csv |-> "malformed", records |-> <<>>]

\* registerRoutes has not run, nothing was asked
NotReturned == [returned |-> FALSE]
NotAsked == [status |-> 0]

ProcessIdle ==
    /\ phase = "starting"
    /\ initReturn = NotReturned
    /\ cacheWrites = 0
    /\ systemStatus = NotAsked

DatasetIdle == datasetCsv = NoDataset

\* No request served yet
NoRequest == [route |-> "none"]
NotServed == [status |-> 0]

RouteIdle ==
    /\ request = NoRequest
    /\ res = NotServed

\* Calls of createOrUpdateFinancialHealth that can be in progress at once
MaxCalls == 3

CallIds == 1..MaxCalls

\* A call not made yet
NotCalled == [pc |-> "not called"]

UpsertIdle == upserts = [c \in CallIds |-> NotCalled]

\* POST /api/transactions requests served at the same time
MaxPosts == 2

PostIds == 1..MaxPosts

\* A request not received yet
NotReceived == [pc |-> "not received"]

OverlapIdle == posts = [r \in PostIds |-> NotReceived]

\* getUser(id) !== undefined
userExists(us, id) == \E u \in us : u.id = id

\* getUser(id)
getUser(us, id) == CHOOSE u \in us : u.id = id

\* createUser with a monthly income of 5000 in insertUser
createUserWithIncome(us, id) ==
    us \cup {[id |-> id,
              monthlyIncome |-> [valid |-> TRUE, whole |-> 5000, milli |-> 0]]}

\* createUser(insertUser, customId), no monthlyIncome in insertUser
createUser(us, id) == us \cup {[id |-> id, monthlyIncome |-> NullDecimal]}

\* One insertion of the sort of getTransactionsByUser: t goes before the
\* first element dated strictly earlier; an Invalid Date compares as equal
RECURSIVE insertByDate(_, _)
insertByDate(sorted, t) ==
    IF sorted = <<>> THEN <<t>>
    ELSE IF FGt(FSub(getTime(t.date), getTime(Head(sorted).date)), 0)
    THEN <<t>> \o sorted
    ELSE <<Head(sorted)>> \o insertByDate(Tail(sorted), t)

\* .sort((a, b) => new Date(b.date).getTime() - new Date(a.date).getTime())
RECURSIVE sortByDateDesc(_)
sortByDateDesc(ts) ==
    IF ts = <<>> THEN <<>>
    ELSE insertByDate(sortByDateDesc(SubSeq(ts, 1, Len(ts) - 1)), ts[Len(ts)])

getTransactionsByUser(st, userId) ==
    sortByDateDesc(SelectSeq(st, LAMBDA t : t.userId = userId))

\* createTransaction(insertTransaction), with the id randomUUID() returns
createTransaction(st, insertTransaction, id) ==
    Append(st, [id |-> id,
                userId |-> insertTransaction.userId,
                date |-> insertTransaction.date,
                amount |-> insertTransaction.amount,
                merchant |-> insertTransaction.merchant,
                category |-> insertTransaction.category,
                type |-> insertTransaction.type,
                isFraudulent |-> insertTransaction.isFraudulent,
                fraudReason |-> insertTransaction.fraudReason,
                createdAt |-> now])

\* updateTransaction(id, updates): { ...transaction, ...updates }
updateTransaction(st, id, updates) ==
    [i \in 1..Len(st) |->
        IF st[i].id = id
        THEN [f \in DOMAIN st[i] \cup DOMAIN updates |->
                 IF f \in DOMAIN updates THEN updates[f] ELSE st[i][f]]
        ELSE st[i]]

\* deleteTransaction(id)
deleteTransaction(st, id) == SelectSeq(st, LAMBDA t : t.id # id)

\* transactions.get(id) !== undefined
transactionExists(st, id) == \E i \in 1..Len(st) : st[i].id = id

\* No FinancialHealth record found
NoExisting == [id |-> 0]

\* getFinancialHealth(userId): the first record of the user, if any
getFinancialHealth(fhs, userId) ==
    LET existing == {i \in 1..Len(fhs) : fhs[i].userId = userId}
    IN IF existing # {}
       THEN fhs[CHOOSE k \in existing : \A j \in existing : k <= j]
       ELSE NoExisting

\* The write of createOrUpdateFinancialHealth, after the lookup returned
\* existing: the record of that id is replaced, or a record is inserted
\* under the id randomUUID() returns
writeFinancialHealth(fhs, existing, userId, metrics, id) ==
    LET record(rid) == [id |-> rid, userId |-> userId, metrics |-> metrics,
                        calculatedAt |-> now]
    IN IF existing # NoExisting
       THEN [i \in 1..Len(fhs) |->
                IF fhs[i].id = existing.id THEN record(existing.id) ELSE fhs[i]]
       ELSE Append(fhs, record(id))

\* createOrUpdateFinancialHealth(health) run without interruption
createOrUpdateFinancialHealth(fhs, userId, metrics, id) ==
    writeFinancialHealth(fhs, getFinancialHealth(fhs, userId), userId, metrics, id)

-----------------------------------------------------------------------------
(* Calls of detectFraud on drawn inputs *)

\* Longest run of equal transactions in a drawn history
MaxBulk == 21

Now0 == Hours(48)

Amt(w, m) == [valid |-> TRUE, whole |-> w, milli |-> m]
Junk == [valid |-> FALSE, whole |-> 0, milli |-> 0]

CandidateAmounts ==
    { Junk, Amt(10000, 0), Amt(10000, 1), Amt(50000, 0), Amt(50000, 1),
      Amt(100000, 0), Amt(100000, 1) }

Candidates ==
    { [merchant |-> m, amount |-> a, date |-> Now0] :
          m \in {"uber", "CAFE"}, a \in CandidateAmounts }

\* The candidate's amount string with d thousandths added
Shifted(a, d) == IF a.valid THEN Amt(a.whole, a.milli + d) ELSE a

ProbeDates ==
    { Now0 + Minutes(1), Now0 - Hours(1), Now0 - Hours(1) - Minutes(1),
      Now0 - Hours(24), NaN }

BulkDates ==
    { Now0 + Hours(30), Now0 - Minutes(5), Now0 - Minutes(6), Now0 - Hours(24),
      Now0 - Hours(24) - Minutes(1), NaN }

BulkLengths == {0, 9, 10, 19, 20, MaxBulk}

Rep(t, n) == [i \in 1..n |-> t]

\* Histories as storage returns them, newest date first
History(probes, bulk, n) ==
    IF probes # <<>> /\ bulk.date # NaN /\ FLt(probes[1].date, bulk.date)
    THEN Rep(bulk, n) \o probes
    ELSE probes \o Rep(bulk, n)

FraudInit ==
    /\ now = Now0
    /\ cachedPatterns = NoPatterns
    /\ transaction \in Candidates
    /\ \E n \in BulkLengths, bd \in BulkDates :
       \E probes \in {<<>>} \cup
              { <<[merchant |-> m, amount |-> Shifted(transaction.amount, d),
                   date |-> pd]>> :
                    m \in {"UBER", "Cafe"}, d \in {0, 9, 10}, pd \in ProbeDates } :
          recentTransactions =
              History(probes,
                      [merchant |-> "Cafe", amount |-> Amt(10, 0), date |-> bd],
                      n)
    /\ fraudCheck = NoResult
    /\ checkedUnder = {}
    /\ CategorizeIdle
    /\ HealthIdle
    /\ StorageEmpty
    /\ OverlapIdle
    /\ ProcessIdle
    /\ UpsertIdle
    /\ RouteIdle
    /\ DatasetIdle
    /\ AnalysisIdle

\* const fraudCheck = await detectFraud(transactionData, recentTransactions)
DetectFraudCall ==
    /\ fraudCheck' = detectFraud(transaction, recentTransactions)
    /\ checkedUnder' = checkedUnder \cup {cachedPatterns = NoPatterns}
    /\ UNCHANGED <<now, cachedPatterns, transaction, recentTransactions,
                   categorizeVars, healthVars, storageVars,
                   analysisVars,
                   datasetVars,
                   routeVars,
                   upsertVars,
                   processVars,
                   overlapVars>>

FraudNext == DetectFraudCall

SpecFraud == FraudInit /\ [][FraudNext]_vars

\* The same calls, with the cache written between them
CacheNext ==
    \/ DetectFraudCall
    \/ \E p \in SamplePatterns : SetPretrainedPatterns(p)

SpecCache == FraudInit /\ [][CacheNext]_vars

-----------------------------------------------------------------------------
(* Calls of categorizeTransaction on drawn inputs *)

\* Pieces the drawn merchant strings are put together from
MerchantPieces ==
    { "", "Starbucks Coffee", "Random LLC", "Whole Foods", "UBER", "Eats",
      " ", "Vegas Hotel", "AT&T", "CVS Pharmacy", "Theater", "Parking",
      "Apple Store", "Trader Joe" }

FraudIdle ==
    /\ transaction = [merchant |-> "", amount |-> Junk, date |-> NaN]
    /\ recentTransactions = <<>>
    /\ fraudCheck = NoResult
    /\ checkedUnder = {}

CategorizeInit ==
    /\ now = Now0
    /\ cachedPatterns = NoPatterns
    /\ FraudIdle
    /\ merchantArg \in {a \o b : a \in MerchantPieces, b \in MerchantPieces}
    /\ amountArg = NaN
    /\ categoryOut = NoCategory
    /\ HealthIdle
    /\ StorageEmpty
    /\ OverlapIdle
    /\ ProcessIdle
    /\ UpsertIdle
    /\ RouteIdle
    /\ DatasetIdle
    /\ AnalysisIdle

\* categorizeTransaction(merchant, amount)
CategorizeCall(amt) ==
    /\ amountArg' = amt
    /\ categoryOut' = categorizeTransaction(merchantArg, amt)
    /\ UNCHANGED <<now, cachedPatterns, fraudVars, merchantArg, healthVars,
                   storageVars,
                   analysisVars,
                   datasetVars,
                   routeVars,
                   upsertVars,
                   processVars,
                   overlapVars>>

CategorizeNext == \E amt \in {NaN, Units(5), Units(60000)} : CategorizeCall(amt)

SpecCategorize == CategorizeInit /\ [][CategorizeNext]_vars

-----------------------------------------------------------------------------
(* Calls of calculateFinancialHealth on drawn inputs *)

\* Longest run of equal income transactions in a drawn list
MaxIncomeRun == 3

\* Longest run of equal other transactions in a drawn list
MaxOtherRun == 2

IncomeKinds ==
    { [type |-> "income", amount |-> a, category |-> "Other", date |-> d] :
          a \in {Amt(1, 0), Amt(4, 0)},
          d \in {Now0, threeMonthsAgo, threeMonthsAgo - Minutes(1),
                 Now0 + Hours(1)} }

OtherKinds ==
    { [type |-> ty, amount |-> a, category |-> c, date |-> d] :
          ty \in {"expense", "transfer"},
          a \in {Amt(1, 0), Amt(3, 0), Amt(0 - 2, 0), Junk},
          c \in {"Other", "Credit Card"},
          d \in {Now0, NaN} }

HealthInit ==
    /\ now = Now0
    /\ cachedPatterns = NoPatterns
    /\ FraudIdle
    /\ CategorizeIdle
    /\ \E i \in IncomeKinds, n \in 0..MaxIncomeRun,
          o \in OtherKinds, m \in 0..MaxOtherRun :
          transactions = Rep(o, m) \o Rep(i, n)
    /\ monthlyIncome \in {0, NaN, Units(1), Units(2)}
    /\ health = NoHealth
    /\ divisions = {}
    /\ StorageEmpty
    /\ OverlapIdle
    /\ ProcessIdle
    /\ UpsertIdle
    /\ RouteIdle
    /\ DatasetIdle
    /\ AnalysisIdle

\* calculateFinancialHealth(allTransactions, monthlyIncome)
CalculateHealthCall ==
    /\ health' = calculateFinancialHealth(transactions, monthlyIncome)
    /\ divisions' = divisionsOf(transactions, monthlyIncome)
    /\ UNCHANGED <<now, cachedPatterns, fraudVars, categorizeVars,
                   transactions, monthlyIncome, storageVars,
                   analysisVars,
                   datasetVars,
                   routeVars,
                   upsertVars,
                   processVars,
                   overlapVars>>

HealthNext == CalculateHealthCall

SpecHealth == HealthInit /\ [][HealthNext]_vars

-----------------------------------------------------------------------------
(* The transaction routes *)

\* A date given as text: time is what new Date(text).getTime() returns
DateText(text, time) == [text |-> text, time |-> time]
NoDateText == DateText("", NaN)

\* parseFloat(user.monthlyIncome as string || "0")
incomeOf(user) ==
    IF user.monthlyIncome = NullDecimal THEN parseFloat([valid |-> TRUE,
                                                         whole |-> 0, milli |-> 0])
    ELSE parseFloat(user.monthlyIncome)

\* fraudCheck.reason || null
reasonOrNull(reason) == IF reason = Undefined \/ reason = "" THEN Null ELSE reason

\* The recalculation of the financial health that ends a route
recalculateHealth(us, st, fhs, userId, id) ==
    IF userExists(us, userId)
    THEN createOrUpdateFinancialHealth(
             fhs, userId,
             calculateFinancialHealth(getTransactionsByUser(st, userId),
                                      incomeOf(getUser(us, userId))),
             id)
    ELSE fhs

\* transactionData with the verdict of the fraud check applied
flagged(transactionData, check) ==
    IF check.isFraudulent
    THEN [transactionData EXCEPT !.isFraudulent = TRUE,
                                 !.fraudReason = reasonOrNull(check.reason)]
    ELSE transactionData

\* The columns of transactions that insertTransactionSchema requires: the
\* notNull columns without a default, less id and createdAt
RequiredFields == {"userId", "date", "amount", "merchant", "category", "type"}

\* insertTransactionSchema.parse(body) returns: every required field is
\* present; amount is z.string(), any text
schemaAccepts(body) == RequiredFields \subseteq body.present

Status(code) == [status |-> code]

\* POST /api/transactions
PostTransaction(data) ==
    LET users1 == IF userExists(users, data.userId) THEN users
                  ELSE createUser(users, data.userId)
        category ==
            IF data.category = "" \/ data.category = "Other"
            THEN categorizeTransaction(data.merchant, parseFloat(data.amount))
            ELSE data.category
        transactionData ==
            [userId |-> data.userId, date |-> data.date.time,
             amount |-> data.amount, merchant |-> data.merchant,
             category |-> category, type |-> data.type,
             isFraudulent |-> FALSE, fraudReason |-> Null]
        recent == getTransactionsByUser(stored, data.userId)
        check == detectFraud(transactionData, recent)
        stored1 == createTransaction(stored, flagged(transactionData, check), nextId)
    IN /\ requests < MaxRequests
       /\ Len(stored) < MaxStored
       /\ request' = [route |-> "POST /api/transactions", body |-> data]
       /\ requests' = requests + 1
       /\ IF schemaAccepts(data)
          THEN /\ users' = users1
               /\ stored' = stored1
               /\ financialHealth' =
                      recalculateHealth(users1, stored1, financialHealth,
                                        data.userId, nextId + 1)
               /\ nextId' = nextId + 2
               /\ transaction' = transactionData
               /\ recentTransactions' = recent
               /\ fraudCheck' = check
               /\ checkedUnder' = checkedUnder \cup {cachedPatterns = NoPatterns}
               /\ res' = Status(201)
          ELSE /\ res' = Status(400)
               /\ UNCHANGED <<users, stored, financialHealth, nextId, fraudVars,
                   upsertVars,
                   processVars,
                   overlapVars>>
       /\ UNCHANGED <<now, cachedPatterns, categorizeVars, healthVars, ticks,
                      analysisVars, datasetVars,
                   upsertVars,
                   processVars,
                   overlapVars>>

\* detectTransactionType(record) for a CSV with the columns date, amount,
\* merchant, type and description: none of these names holds a credit or
\* debit keyword, so the scan of the column names decides nothing
detectTransactionType(record) ==
    LET text == toLowerCase(IF record.merchant # "" THEN record.merchant
                            ELSE record.description)
        incomeKeywords == {"salary", "income", "bonus", "payment received",
                           "deposit", "refund", "transfer in", "received",
                           "credit"}
        expenseKeywords == {"payment", "purchase", "withdrawal", "transfer out",
                            "expense", "debit", "charge", "fee", "paid"}
        matchesIncome == \E kw \in incomeKeywords : includes(text, kw)
        matchesExpense == \E kw \in expenseKeywords : includes(text, kw)
    IN IF record.type = "income" \/ record.type = "expense" THEN record.type
       ELSE IF matchesIncome /\ ~matchesExpense THEN "income"
       ELSE "expense"

\* record.merchant || record.description || 'Unknown'
merchantOfRecord(record) ==
    IF record.merchant # "" THEN record.merchant
    ELSE IF record.description # "" THEN record.description
    ELSE "Unknown"

\* The transactionData of one CSV record
rowTransaction(record, userId) ==
    [userId |-> userId,
     date |-> IF record.date.text # "" /\ record.date.time # NaN
              THEN record.date.time ELSE now,
     amount |-> record.amount,
     merchant |-> merchantOfRecord(record),
     category |-> categorizeTransaction(merchantOfRecord(record),
                                         parseFloat(record.amount)),
     type |-> detectTransactionType(record),
     isFraudulent |-> FALSE,
     fraudReason |-> Null]

\* for (const record of records) { ... }: storage after the rows, and the
\* last fraud check made
RECURSIVE uploadRows(_, _, _)
uploadRows(records, userId, acc) ==
    IF records = <<>> THEN acc
    ELSE LET transactionData == rowTransaction(Head(records), userId)
             recent == getTransactionsByUser(acc.stored, userId)
             check == detectFraud(transactionData, recent)
         IN uploadRows(Tail(records), userId,
                       [stored |-> createTransaction(acc.stored,
                                                     flagged(transactionData, check),
                                                     acc.nextId),
                        nextId |-> acc.nextId + 1,
                        transaction |-> transactionData,
                        recent |-> recent,
                        check |-> check])

\* POST /api/transactions/upload with a file of at least one record
UploadTransactions(userId, records) ==
    LET users1 == IF userExists(users, userId) THEN users
                  ELSE createUser(users, userId)
        done == uploadRows(records, userId,
                           [stored |-> stored, nextId |-> nextId,
                            transaction |-> transaction,
                            recent |-> recentTransactions,
                            check |-> fraudCheck])
    IN /\ requests < MaxRequests
       /\ records # <<>>
       /\ Len(stored) + Len(records) <= MaxStored
       /\ request' = [route |-> "POST /api/transactions/upload",
                       userId |-> userId, records |-> records]
       /\ res' = Status(201)
       /\ users' = users1
       /\ stored' = done.stored
       /\ financialHealth' =
              recalculateHealth(users1, done.stored, financialHealth, userId,
                                done.nextId)
       /\ nextId' = done.nextId + 1
       /\ requests' = requests + 1
       /\ transaction' = done.transaction
       /\ recentTransactions' = done.recent
       /\ fraudCheck' = done.check
       /\ checkedUnder' = checkedUnder \cup {cachedPatterns = NoPatterns}
       /\ UNCHANGED <<now, cachedPatterns, categorizeVars, healthVars, ticks,
                      analysisVars, datasetVars,
                   upsertVars,
                   processVars,
                   overlapVars>>

\* Wall-clock time passing between requests
Tick ==
    /\ ticks < MaxTicks
    /\ now' = now + TickStep
    /\ ticks' = ticks + 1
    /\ UNCHANGED <<cachedPatterns, fraudVars, categorizeVars, healthVars,
                   users, stored, financialHealth, nextId, requests,
                   analysisVars,
                   datasetVars,
                   routeVars,
                   upsertVars,
                   processVars,
                   overlapVars>>

UserIds == {"demo-user"}

\* Dates a client sends: the current time, two days back, unparseable text
ClientDates ==
    {DateText("now", now), DateText("two days ago", now - Hours(48)),
     DateText("soon", NaN)}

PostBodies ==
    { [userId |-> u, merchant |-> m, amount |-> a, date |-> d,
       category |-> c, type |-> "expense", present |-> RequiredFields] :
          u \in UserIds, m \in {"City Mall"},
          a \in {Amt(20000, 0), Amt(100001, 0)},
          d \in ClientDates, c \in {""} }

CsvRecords ==
    { [date |-> d, amount |-> a, merchant |-> m, type |-> "",
       description |-> ""] :
          d \in {NoDateText, DateText("two days ago", now - Hours(48))},
          a \in {Amt(20, 0)},
          m \in {"Uber", "Salary"} }

\* Numbers of records in an uploaded file
RecordCounts == {1, MaxRecords}

ApiInit ==
    /\ now = Now0
    /\ cachedPatterns = NoPatterns
    /\ FraudIdle
    /\ CategorizeIdle
    /\ HealthIdle
    /\ StorageEmpty
    /\ OverlapIdle
    /\ ProcessIdle
    /\ UpsertIdle
    /\ RouteIdle
    /\ DatasetIdle
    /\ AnalysisIdle

ApiNext ==
    \/ \E data \in PostBodies : PostTransaction(data)
    \/ \E u \in UserIds, r \in CsvRecords, n \in RecordCounts :
           UploadTransactions(u, Rep(r, n))
    \/ Tick

SpecApi == ApiInit /\ [][ApiNext]_vars

-----------------------------------------------------------------------------
(* The receipt route, and the routes that change or remove a transaction *)

\* Number.prototype.toString of a number held in thousandths
numberToString(x) ==
    IF x = NaN THEN [valid |-> FALSE, whole |-> 0, milli |-> 0]
    ELSE IF x >= 0 THEN [valid |-> TRUE, whole |-> x \div 1000, milli |-> x % 1000]
    ELSE [valid |-> TRUE, whole |-> 0 - ((0 - x) \div 1000),
          milli |-> 0 - ((0 - x) % 1000)]

\* What the Gemini vision endpoint made of one image: nothing usable (no API
\* key, or every endpoint failed), or the JSON fields it extracted
Unavailable ==
    [kind |-> "unavailable", merchant |-> "", amount |-> numberToString(0),
     confidence |-> 0, extractedText |-> "", transactionDirection |-> "",
     fraudIndicators |-> <<>>]

\* fallbackReceiptAnalysis(imageBase64).receiptData
fallbackReceiptAnalysis ==
    [merchant |-> "Receipt Transaction", amount |-> 0, confidence |-> 0,
     extractedText |-> "API unavailable - please enter amount manually",
     fraudIndicators |-> <<>>, transactionType |-> ""]

\* callGeminiVision(imageBase64, apiKey).receiptData for the fields extracted
callGeminiVision(extractedData, cache) ==
    LET parsed == parseFloat(extractedData.amount)
        amount == IF parsed = NaN THEN 0 ELSE parsed
        extractedText == toLowerCase(extractedData.extractedText)
        geminiDirection == toLowerCase(extractedData.transactionDirection)
        incomeKeywords == {"received from", "credited", "deposit", "income",
                           "salary", "refund", "cashback", "reward"}
        expenseKeywords == {"paid to", "debited", "payment", "purchase",
                            "expense", "bill", "charge"}
        hasIncomeKeyword == \E kw \in incomeKeywords : includes(extractedText, kw)
        hasExpenseKeyword == \E kw \in expenseKeywords : includes(extractedText, kw)
        transactionType ==
            IF geminiDirection = "received" THEN "income"
            ELSE IF geminiDirection = "paid" THEN "expense"
            ELSE IF hasIncomeKeyword /\ ~hasExpenseKeyword THEN "income"
            ELSE "expense"
        mentions(list, word) ==
            \E i \in 1..Len(list) : includes(toLowerCase(list[i]), word)
        geminiIndicators == extractedData.fraudIndicators
        withAmount ==
            IF cache = NoPatterns \/ mentions(geminiIndicators, "amount")
            THEN geminiIndicators
            ELSE IF amount > Units(100000)
            THEN Append(geminiIndicators,
                        "Amount exceeds 1,00,000 - High risk based on IEEE dataset")
            ELSE IF amount > Units(50000)
            THEN Append(geminiIndicators, "Amount exceeds 50,000 - Medium-high risk")
            ELSE geminiIndicators
        matchesHighRisk ==
            /\ cache # NoPatterns
            /\ \E m \in cache.highRiskMerchants :
                   /\ m # ""
                   /\ includes(toLowerCase(extractedData.merchant), toLowerCase(m))
        fraudIndicators ==
            IF matchesHighRisk /\ ~mentions(withAmount, "merchant")
            THEN Append(withAmount,
                        "Merchant matches high-risk pattern from fraud dataset")
            ELSE withAmount
    IN [merchant |-> IF extractedData.merchant = "" THEN "Unknown"
                     ELSE extractedData.merchant,
        amount |-> amount,
        confidence |-> IF extractedData.confidence = 0 THEN 75
                       ELSE extractedData.confidence,
        extractedText |-> extractedData.extractedText,
        fraudIndicators |-> fraudIndicators,
        transactionType |-> transactionType]

\* analyzeReceiptWithVision(imageBase64, apiKey).receiptData
analyzeReceiptWithVision(vision, cache) ==
    IF vision.kind = "unavailable" THEN fallbackReceiptAnalysis
    ELSE callGeminiVision(vision, cache)

\* indicators.filter((item, index) => indicators.indexOf(item) === index)
withoutDuplicates(indicators) ==
    LET first(i) == \A j \in 1..(i - 1) : indicators[j] # indicators[i]
        kept == {i \in 1..Len(indicators) : first(i)}
        RECURSIVE build(_)
        build(i) == IF i > Len(indicators) THEN <<>>
                    ELSE IF i \in kept THEN <<indicators[i]>> \o build(i + 1)
                    ELSE build(i + 1)
    IN build(1)

\* detectFraudIndicatorsFromReceipt(receiptData)
detectFraudIndicatorsFromReceipt(receiptData) ==
    LET lowerText == toLowerCase(receiptData.extractedText)
        has(a, b) == includes(lowerText, a) \/ includes(lowerText, b)
        high == IF receiptData.amount > Units(500000)
                THEN <<"Unusually high transaction amount">> ELSE <<>>
        duplicate == IF has("duplicate", "retry")
                     THEN <<"Possible duplicate transaction">> ELSE <<>>
        failure == IF has("unauthorized", "failed")
                   THEN <<"Transaction failure indicators present">> ELSE <<>>
        test == IF has("test", "demo")
                THEN <<"Test/demo transaction detected">> ELSE <<>>
    IN withoutDuplicates(high \o duplicate \o failure \o test
                         \o receiptData.fraudIndicators)

\* const isValidOCR = ...
isValidOCR(receiptData) ==
    /\ receiptData.amount > 0
    /\ receiptData.merchant # "Receipt Transaction"
    /\ receiptData.merchant # "Unknown"
    /\ receiptData.confidence >= 50

\* POST /api/transactions/screenshot with an image file
PostScreenshot(userId, vision) ==
    LET users1 == IF userExists(users, userId) THEN users
                  ELSE createUser(users, userId)
        receiptData == analyzeReceiptWithVision(vision, cachedPatterns)
        fraudIndicators == detectFraudIndicatorsFromReceipt(receiptData)
        detectedType == IF receiptData.transactionType = "" THEN "expense"
                        ELSE receiptData.transactionType
        transactionData ==
            [userId |-> userId, date |-> now,
             amount |-> numberToString(receiptData.amount),
             merchant |-> receiptData.merchant,
             category |-> categorizeTransaction(receiptData.merchant,
                                                 receiptData.amount),
             type |-> detectedType,
             isFraudulent |-> Len(fraudIndicators) > 0,
             fraudReason |-> IF Len(fraudIndicators) > 0 THEN fraudIndicators[1]
                             ELSE Null]
        recent == getTransactionsByUser(stored, userId)
        check == detectFraud(transactionData, recent)
    IN /\ requests < MaxRequests
       /\ Len(stored) < MaxStored
       /\ request' = [route |-> "POST /api/transactions/screenshot",
                      userId |-> userId, vision |-> vision]
       /\ requests' = requests + 1
       /\ IF userId = ""
          THEN /\ res' = Status(400)
               /\ UNCHANGED <<users, stored, nextId, fraudVars,
                   upsertVars,
                   processVars,
                   overlapVars>>
          ELSE /\ users' = users1
               /\ IF isValidOCR(receiptData)
                  THEN /\ stored' = createTransaction(
                                        stored, flagged(transactionData, check),
                                        nextId)
                       /\ nextId' = nextId + 1
                  ELSE UNCHANGED <<stored, nextId,
                   upsertVars,
                   processVars,
                   overlapVars>>
               /\ transaction' = transactionData
               /\ recentTransactions' = recent
               /\ fraudCheck' = check
               /\ checkedUnder' = checkedUnder \cup {cachedPatterns = NoPatterns}
               /\ res' = Status(201)
       /\ UNCHANGED <<now, cachedPatterns, categorizeVars, healthVars,
                      financialHealth, ticks, analysisVars, datasetVars,
                   upsertVars,
                   processVars,
                   overlapVars>>

\* PATCH /api/transactions/:id
PatchTransaction(id, updates) ==
    /\ requests < MaxRequests
    /\ request' = [route |-> "PATCH /api/transactions/:id", id |-> id,
                   body |-> updates]
    /\ requests' = requests + 1
    /\ IF transactionExists(stored, id)
       THEN /\ stored' = updateTransaction(stored, id, updates)
            /\ res' = Status(200)
       ELSE /\ res' = Status(404)
            /\ UNCHANGED stored
    /\ UNCHANGED <<now, cachedPatterns, fraudVars, categorizeVars, healthVars,
                   users, financialHealth, nextId, ticks, analysisVars,
                   datasetVars,
                   upsertVars,
                   processVars,
                   overlapVars>>

\* DELETE /api/transactions/:id
DeleteTransaction(id) ==
    /\ requests < MaxRequests
    /\ request' = [route |-> "DELETE /api/transactions/:id", id |-> id]
    /\ requests' = requests + 1
    /\ IF transactionExists(stored, id)
       THEN /\ stored' = deleteTransaction(stored, id)
            /\ res' = Status(204)
       ELSE /\ res' = Status(404)
            /\ UNCHANGED stored
    /\ UNCHANGED <<now, cachedPatterns, fraudVars, categorizeVars, healthVars,
                   users, financialHealth, nextId, ticks, analysisVars,
                   datasetVars,
                   upsertVars,
                   processVars,
                   overlapVars>>

\* Bodies sent to POST /api/transactions: well-formed ones, a negative
\* amount, an amount that is no number, and one without its merchant
MutationBodies ==
    { [userId |-> "demo-user", merchant |-> "City Mall", amount |-> a,
       date |-> DateText("now", now), category |-> "", type |-> t,
       present |-> RequiredFields] :
          a \in {[valid |-> TRUE, whole |-> 250, milli |-> 0],
                 [valid |-> TRUE, whole |-> 0 - 50, milli |-> 0],
                 [valid |-> FALSE, whole |-> 0, milli |-> 0]},
          t \in {"income", "expense"} }
    \cup
    { [userId |-> "demo-user", merchant |-> "", amount |-> a,
       date |-> DateText("now", now), category |-> "", type |-> "expense",
       present |-> RequiredFields \ {f}] :
          a \in {[valid |-> TRUE, whole |-> 250, milli |-> 0]},
          f \in {"merchant"} }

\* Rows in one uploaded file
MaxRows == 2

\* Records of the uploaded files: no date column, an amount of 20, of -20,
\* or a text that is no number
MutationRecords ==
    { [date |-> NoDateText, amount |-> a, merchant |-> "Uber", type |-> "",
       description |-> ""] :
          a \in {[valid |-> TRUE, whole |-> 20, milli |-> 0],
                 [valid |-> TRUE, whole |-> 0 - 20, milli |-> 0],
                 [valid |-> FALSE, whole |-> 0, milli |-> 0]} }

\* What the vision endpoint extracts from the images sent
VisionOutcomes ==
    { Unavailable }
    \cup
    { [kind |-> "extracted", merchant |-> m, amount |-> a, confidence |-> c,
       extractedText |-> "Paid to store", transactionDirection |-> "paid",
       fraudIndicators |-> <<>>] :
          m \in {"Corner Store", ""},
          a \in {[valid |-> TRUE, whole |-> 120, milli |-> 500],
                 [valid |-> TRUE, whole |-> 0 - 120, milli |-> 0],
                 [valid |-> FALSE, whole |-> 0, milli |-> 0]},
          c \in {0, 40} }

\* Bodies sent to PATCH /api/transactions/:id
PatchBodies ==
    { [amount |-> [valid |-> TRUE, whole |-> 0 - 75, milli |-> 0]],
      [category |-> "Food & Dining"],
      [type |-> "income", amount |-> [valid |-> TRUE, whole |-> 900, milli |-> 0]] }

MutationsInit ==
    /\ now = Now0
    /\ cachedPatterns = NoPatterns
    /\ FraudIdle
    /\ CategorizeIdle
    /\ HealthIdle
    /\ StorageEmpty
    /\ OverlapIdle
    /\ ProcessIdle
    /\ UpsertIdle
    /\ RouteIdle
    /\ DatasetIdle
    /\ AnalysisIdle

MutationsNext ==
    \/ \E data \in MutationBodies : PostTransaction(data)
    \/ \E r \in MutationRecords, n \in 1..MaxRows :
           UploadTransactions("demo-user", Rep(r, n))
    \/ \E u \in {"demo-user", ""}, vision \in VisionOutcomes :
           PostScreenshot(u, vision)
    \/ \E id \in 1..nextId, updates \in PatchBodies : PatchTransaction(id, updates)
    \/ \E id \in 1..nextId : DeleteTransaction(id)

SpecMutations == MutationsInit /\ [][MutationsNext]_vars

-----------------------------------------------------------------------------
(* createOrUpdateFinancialHealth, call by call *)

\* const existing = await this.getFinancialHealth(health.userId): the lookup
\* reads the records, and the call is suspended at the await
LookupExisting(c, userId, metrics) ==
    /\ upserts[c] = NotCalled
    /\ upserts' = [upserts EXCEPT ![c] =
                      [pc |-> "awaiting", userId |-> userId, metrics |-> metrics,
                       existing |-> getFinancialHealth(financialHealth, userId)]]
    /\ UNCHANGED <<now, cachedPatterns, fraudVars, categorizeVars, healthVars,
                   storageVars, analysisVars, datasetVars, routeVars,
                   processVars,
                   overlapVars>>

\* The call resumes with the record it was given, and writes
WriteHealth(c) ==
    /\ upserts[c].pc = "awaiting"
    /\ financialHealth' =
           writeFinancialHealth(financialHealth, upserts[c].existing,
                                upserts[c].userId, upserts[c].metrics, nextId)
    /\ nextId' = IF upserts[c].existing = NoExisting THEN nextId + 1 ELSE nextId
    /\ upserts' = [upserts EXCEPT ![c] = [pc |-> "returned"]]
    /\ UNCHANGED <<now, cachedPatterns, fraudVars, categorizeVars, healthVars,
                   users, stored, requests, ticks, analysisVars, datasetVars,
                   routeVars,
                   processVars,
                   overlapVars>>

UpsertUsers == {"demo-user", "second-user"}

\* The metrics the calls carry
UpsertMetrics ==
    { [score |-> s, incomeStability |-> 50, expenseRatio |-> 50,
       savingsRate |-> 50, debtRatio |-> 50, liquidity |-> 50] : s \in {50, 72} }

UpsertInit ==
    /\ now = Now0
    /\ cachedPatterns = NoPatterns
    /\ FraudIdle
    /\ CategorizeIdle
    /\ HealthIdle
    /\ StorageEmpty
    /\ OverlapIdle
    /\ ProcessIdle
    /\ UpsertIdle
    /\ RouteIdle
    /\ DatasetIdle
    /\ AnalysisIdle

UpsertNext ==
    \/ \E c \in CallIds, u \in UpsertUsers, m \in UpsertMetrics :
           LookupExisting(c, u, m)
    \/ \E c \in CallIds : WriteHealth(c)

SpecUpsert == UpsertInit /\ [][UpsertNext]_vars

-----------------------------------------------------------------------------
(* POST /api/transactions, await by await *)

\* The handler of request r moves to position pc with its locals changed
Resume(r, pc, locals) ==
    posts' = [posts EXCEPT ![r] =
                 [f \in DOMAIN posts[r] \cup DOMAIN locals \cup {"pc"} |->
                     IF f = "pc" THEN pc
                     ELSE IF f \in DOMAIN locals THEN locals[f]
                     ELSE posts[r][f]]]

\* insertTransactionSchema.parse(req.body);
\* let existingUser = await storage.getUser(data.userId)
AwaitGetUser(r, data) ==
    /\ posts[r] = NotReceived
    /\ schemaAccepts(data)
    /\ posts' = [posts EXCEPT ![r] =
                    [pc |-> IF userExists(users, data.userId)
                            THEN "user ready" ELSE "user missing",
                     data |-> data]]
    /\ UNCHANGED <<now, cachedPatterns, fraudVars, categorizeVars, healthVars,
                   storageVars, analysisVars, datasetVars, routeVars,
                   upsertVars, processVars>>

\* await storage.createUser({...}, data.userId)
AwaitCreateUser(r) ==
    /\ posts[r].pc = "user missing"
    /\ users' = createUser(users, posts[r].data.userId)
    /\ Resume(r, "user ready", <<>>)
    /\ UNCHANGED <<now, cachedPatterns, fraudVars, categorizeVars, healthVars,
                   stored, financialHealth, nextId, requests, ticks,
                   analysisVars, datasetVars, routeVars, upsertVars,
                   processVars>>

\* const recentTransactions = await storage.getTransactionsByUser(data.userId)
AwaitRecentTransactions(r) ==
    /\ posts[r].pc = "user ready"
    /\ Resume(r, "history read",
              [recentTransactions |->
                   getTransactionsByUser(stored, posts[r].data.userId)])
    /\ UNCHANGED <<now, cachedPatterns, fraudVars, categorizeVars, healthVars,
                   storageVars, analysisVars, datasetVars, routeVars,
                   upsertVars, processVars>>

\* const fraudCheck = await detectFraud(transactionData, recentTransactions);
\* const transaction = await storage.createTransaction(transactionData)
AwaitCreateTransaction(r) ==
    LET data == posts[r].data
        category ==
            IF data.category = "" \/ data.category = "Other"
            THEN categorizeTransaction(data.merchant, parseFloat(data.amount))
            ELSE data.category
        transactionData ==
            [userId |-> data.userId, date |-> data.date.time,
             amount |-> data.amount, merchant |-> data.merchant,
             category |-> category, type |-> data.type,
             isFraudulent |-> FALSE, fraudReason |-> Null]
        check == detectFraud(transactionData, posts[r].recentTransactions)
    IN /\ posts[r].pc = "history read"
       /\ stored' = createTransaction(stored, flagged(transactionData, check),
                                      nextId)
       /\ nextId' = nextId + 1
       /\ Resume(r, "created", [fraudCheck |-> check, transaction |-> nextId])
       /\ UNCHANGED <<now, cachedPatterns, fraudVars, categorizeVars,
                      healthVars, users, financialHealth, requests, ticks,
                      analysisVars, datasetVars, routeVars, upsertVars,
                      processVars>>

\* const finalUser = await storage.getUser(data.userId)
AwaitFinalUser(r) ==
    /\ posts[r].pc = "created"
    /\ IF userExists(users, posts[r].data.userId)
       THEN Resume(r, "user read",
                   [finalUser |-> getUser(users, posts[r].data.userId)])
       ELSE Resume(r, "answered", [status |-> 201])
    /\ UNCHANGED <<now, cachedPatterns, fraudVars, categorizeVars, healthVars,
                   storageVars, analysisVars, datasetVars, routeVars,
                   upsertVars, processVars>>

\* const allTransactions = await storage.getTransactionsByUser(data.userId);
\* const healthMetrics = calculateFinancialHealth(allTransactions, ...)
AwaitAllTransactions(r) ==
    /\ posts[r].pc = "user read"
    /\ Resume(r, "metrics computed",
              [healthMetrics |->
                   calculateFinancialHealth(
                       getTransactionsByUser(stored, posts[r].data.userId),
                       incomeOf(posts[r].finalUser))])
    /\ UNCHANGED <<now, cachedPatterns, fraudVars, categorizeVars, healthVars,
                   storageVars, analysisVars, datasetVars, routeVars,
                   upsertVars, processVars>>

\* createOrUpdateFinancialHealth: const existing = await
\* this.getFinancialHealth(health.userId)
AwaitExistingHealth(r) ==
    /\ posts[r].pc = "metrics computed"
    /\ Resume(r, "health looked up",
              [existing |->
                   getFinancialHealth(financialHealth, posts[r].data.userId)])
    /\ UNCHANGED <<now, cachedPatterns, fraudVars, categorizeVars, healthVars,
                   storageVars, analysisVars, datasetVars, routeVars,
                   upsertVars, processVars>>

\* createOrUpdateFinancialHealth writes the record;
\* res.status(201).json({ transaction, fraudCheck })
AwaitHealthWritten(r) ==
    /\ posts[r].pc = "health looked up"
    /\ financialHealth' =
           writeFinancialHealth(financialHealth, posts[r].existing,
                                posts[r].data.userId, posts[r].healthMetrics,
                                nextId)
    /\ nextId' = IF posts[r].existing = NoExisting THEN nextId + 1 ELSE nextId
    /\ Resume(r, "answered", [status |-> 201])
    /\ UNCHANGED <<now, cachedPatterns, fraudVars, categorizeVars, healthVars,
                   users, stored, requests, ticks, analysisVars, datasetVars,
                   routeVars, upsertVars, processVars>>

\* Bodies of the overlapping requests
OverlapBodies ==
    { [userId |-> "demo-user", merchant |-> "City Mall", amount |-> a,
       date |-> DateText("now", now), category |-> "", type |-> "expense",
       present |-> RequiredFields] :
          a \in {[valid |-> TRUE, whole |-> 250, milli |-> 0],
                 [valid |-> TRUE, whole |-> 300, milli |-> 0]} }

\* Storage without transactions, the user known from an earlier request or not
OverlapInit ==
    /\ now = Now0
    /\ cachedPatterns = NoPatterns
    /\ FraudIdle
    /\ CategorizeIdle
    /\ HealthIdle
    /\ users \in {{}, createUser({}, "demo-user")}
    /\ stored = <<>>
    /\ financialHealth = <<>>
    /\ nextId = 1
    /\ requests = 0
    /\ ticks = 0
    /\ OverlapIdle
    /\ ProcessIdle
    /\ UpsertIdle
    /\ RouteIdle
    /\ DatasetIdle
    /\ AnalysisIdle

OverlapNext ==
    \/ \E r \in PostIds, data \in OverlapBodies : AwaitGetUser(r, data)
    \/ \E r \in PostIds : AwaitCreateUser(r)
    \/ \E r \in PostIds : AwaitRecentTransactions(r)
    \/ \E r \in PostIds : AwaitCreateTransaction(r)
    \/ \E r \in PostIds : AwaitFinalUser(r)
    \/ \E r \in PostIds : AwaitAllTransactions(r)
    \/ \E r \in PostIds : AwaitExistingHealth(r)
    \/ \E r \in PostIds : AwaitHealthWritten(r)

SpecOverlap == OverlapInit /\ [][OverlapNext]_vars

-----------------------------------------------------------------------------
(* analyzeFraudWithLLM *)

\* parseFloat(x.toFixed(2))
toFixed2(x) == IF x = NaN THEN NaN ELSE ((x + 5) \div 10) * 10

\* The entries calculateDebitCreditAnalysis collects for one type
entriesOf(ts, type) ==
    LET picked == SelectSeq(ts, LAMBDA t : t.type = type)
    IN [i \in 1..Len(picked) |->
           [amount |-> FAbs(parseFloat(picked[i].amount)),
            merchant |-> picked[i].merchant,
            category |-> picked[i].category]]

\* .reduce((sum, d) => sum + d.amount, 0)
RECURSIVE sumEntries(_)
sumEntries(es) ==
    IF es = <<>> THEN 0
    ELSE LET rest == sumEntries(SubSeq(es, 1, Len(es) - 1))
             a == es[Len(es)].amount
         IN IF rest = NaN \/ a = NaN THEN NaN ELSE rest + a

\* categories[c] = (categories[c] || 0) + amount over the entries of
\* category c: a NaN total is falsy and starts again from 0
RECURSIVE categoryTotal(_, _)
categoryTotal(es, c) ==
    IF es = <<>> THEN 0
    ELSE LET rest == categoryTotal(SubSeq(es, 1, Len(es) - 1), c)
             e == es[Len(es)]
             base == IF rest = NaN THEN 0 ELSE rest
         IN IF e.category # c THEN rest
            ELSE IF e.amount = NaN THEN NaN ELSE base + e.amount

categoriesOf(es) ==
    [c \in {es[i].category : i \in 1..Len(es)} |-> categoryTotal(es, c)]

\* .reduce((max, d) => d.amount > max.amount ? d : max)
RECURSIVE largestOf(_)
largestOf(es) ==
    IF Len(es) = 1 THEN es[1]
    ELSE LET max == largestOf(SubSeq(es, 1, Len(es) - 1))
             d == es[Len(es)]
         IN IF FGt(d.amount, max.amount) THEN d ELSE max

NoLargest == [amount |-> 0, merchant |-> "N/A"]

calculateDebitCreditAnalysis(ts) ==
    LET debits == entriesOf(ts, "expense")
        credits == entriesOf(ts, "income")
    IN [totalDebits |-> toFixed2(sumEntries(debits)),
        totalCredits |-> toFixed2(sumEntries(credits)),
        debitCount |-> Len(debits),
        creditCount |-> Len(credits),
        largestDebit |-> IF Len(debits) > 0 THEN largestOf(debits) ELSE NoLargest,
        largestCredit |-> IF Len(credits) > 0 THEN largestOf(credits) ELSE NoLargest,
        debitCategories |-> categoriesOf(debits),
        creditCategories |-> categoriesOf(credits)]

\* The risk level of a pretrained pattern
riskLevelOf(score) ==
    IF score > 70 THEN "critical"
    ELSE IF score > 50 THEN "high"
    ELSE IF score > 30 THEN "medium"
    ELSE "low"

\* The read of the cache, with the cache taken as never populated
pretrainedIgnored(cache) == FALSE

\* pretrainedPatterns && pretrainedPatterns.patterns.length > 0
hasPretrained(cache) == cache # NoPatterns /\ Len(cache.patterns) > 0

\* pretrainedPatterns.patterns.slice(0, 5).forEach(...)
pretrainedPatternsOf(cache) ==
    LET first == SubSeq(cache.patterns, 1,
                        IF Len(cache.patterns) < 5 THEN Len(cache.patterns) ELSE 5)
    IN [i \in 1..Len(first) |->
           [pattern |-> "[Dataset Pattern] " \o first[i].description,
            frequency |-> first[i].frequency,
            riskLevel |-> riskLevelOf(first[i].fraudRiskScore),
            affectedTransactions |->
                Round(Frac(first[i].frequency * first[i].fraudRiskScore, 100))]]

\* The pattern for transactions at the high-risk merchants of the dataset
highRiskMerchantPattern(ts, cache) ==
    LET matchingTxns ==
            SelectSeq(ts, LAMBDA t :
                \E m \in cache.highRiskMerchants :
                    includes(toLowerCase(t.merchant), toLowerCase(m)))
    IN IF cache.highRiskMerchants # {} /\ Len(matchingTxns) > 0
       THEN <<[pattern |-> "Transactions from high-risk merchants (IEEE data)",
               frequency |-> Len(matchingTxns),
               riskLevel |-> "high",
               affectedTransactions |-> Len(matchingTxns)]>>
       ELSE <<>>

\* Pattern 1: more than 15 transactions dated no earlier than 24 hours ago
velocityPattern(ts) ==
    LET last24h == SelectSeq(ts, LAMBDA t : FLe(sinceDate(t), Hours(24)))
    IN IF Len(last24h) > 15
       THEN <<[pattern |-> "High transaction velocity (15+ transactions in 24 hours)",
               frequency |-> Len(last24h),
               riskLevel |-> "high",
               affectedTransactions |-> Len(last24h)]>>
       ELSE <<>>

\* Pattern 2: transactions above 50,000
largePattern(ts) ==
    LET largeTxns ==
            SelectSeq(ts, LAMBDA t : FGt(FAbs(parseFloat(t.amount)), Units(50000)))
    IN IF Len(largeTxns) > 0
       THEN <<[pattern |-> "Large transactions detected (50,000+): "
                           \o ToString(Len(largeTxns)) \o " transactions",
               frequency |-> Len(largeTxns),
               riskLevel |-> IF Len(largeTxns) > 3 THEN "high" ELSE "medium",
               affectedTransactions |-> Len(largeTxns)]>>
       ELSE <<>>

\* `${t.merchant}_${Math.round(parseFloat(t.amount) / 100) * 100}`
groupKey(t) ==
    LET a == parseFloat(t.amount)
    IN <<t.merchant, IF a = NaN THEN NaN ELSE Round(Frac(a, Units(100))) * 100>>

\* Pattern 3: the groups of more than 2 transactions, in the order their keys
\* first appear
RECURSIVE repeatedPatterns(_, _, _)
repeatedPatterns(ts, i, seen) ==
    IF i > Len(ts) THEN <<>>
    ELSE IF groupKey(ts[i]) \in seen THEN repeatedPatterns(ts, i + 1, seen)
    ELSE LET key == groupKey(ts[i])
             group == SelectSeq(ts, LAMBDA t : groupKey(t) = key)
             rest == repeatedPatterns(ts, i + 1, seen \cup {key})
         IN IF Len(group) > 2
            THEN <<[pattern |-> "Repeated similar transactions: " \o group[1].merchant,
                    frequency |-> Len(group),
                    riskLevel |-> IF Len(group) > 5 THEN "high" ELSE "medium",
                    affectedTransactions |-> Len(group)]>> \o rest
            ELSE rest

\* Pattern 4: transactions the fraud detector flagged
flaggedPattern(ts) ==
    LET fraudTxns == SelectSeq(ts, LAMBDA t : t.isFraudulent)
    IN IF Len(fraudTxns) > 0
       THEN <<[pattern |-> "Flagged transactions detected by fraud detector",
               frequency |-> Len(fraudTxns),
               riskLevel |-> "critical",
               affectedTransactions |-> Len(fraudTxns)]>>
       ELSE <<>>

detectFraudPatterns(ts) ==
    (IF hasPretrained(cachedPatterns)
     THEN pretrainedPatternsOf(cachedPatterns)
          \o highRiskMerchantPattern(ts, cachedPatterns)
     ELSE <<>>)
    \o velocityPattern(ts) \o largePattern(ts)
    \o repeatedPatterns(ts, 1, {}) \o flaggedPattern(ts)

riskWeights ==
    [critical |-> 100, high |-> 70, medium |-> 50, low |-> 20]

\* patterns.reduce((sum, p) => sum + riskWeights[p.riskLevel], 0)
RECURSIVE totalWeightOf(_)
totalWeightOf(patterns) ==
    IF patterns = <<>> THEN 0
    ELSE riskWeights[Head(patterns).riskLevel] + totalWeightOf(Tail(patterns))

\* v >= n for a fraction v
FracGe(v, n) == v[1] >= n * v[2]

\* overallRisk without the imbalance term and with the shares of the pattern severity and of the flagged
\* transactions exchanged
overallRiskExchanged(ts, patterns, dca) ==
    LET fraudTxns == Len(SelectSeq(ts, LAMBDA t : t.isFraudulent))
        patternRiskScore ==
            IF Len(patterns) > 0 THEN Frac(totalWeightOf(patterns), Len(patterns))
            ELSE <<0, 1>>
        flaggedPercentage ==
            IF Len(ts) > 0 THEN Frac(100 * fraudTxns, Len(ts)) ELSE <<0, 1>>
    IN Min100(FracAdd(Weighted(patternRiskScore, 35),
                      Weighted(flaggedPercentage, 40)))

\* overallRisk of provideRuleBasedAnalysis, a fraction
overallRiskOf(ts, patterns, dca) ==
    LET fraudTxns == Len(SelectSeq(ts, LAMBDA t : t.isFraudulent))
        patternRiskScore ==
            IF Len(patterns) > 0 THEN Frac(totalWeightOf(patterns), Len(patterns))
            ELSE <<0, 1>>
        totalAmount ==
            IF dca.totalDebits = NaN \/ dca.totalCredits = NaN THEN NaN
            ELSE dca.totalDebits + dca.totalCredits
        debitCreditRatio ==
            IF FGt(totalAmount, 0)
            THEN Percent(Frac(Abs(dca.totalDebits - dca.totalCredits), totalAmount))
            ELSE <<0, 1>>
        flaggedPercentage ==
            IF Len(ts) > 0 THEN Frac(100 * fraudTxns, Len(ts)) ELSE <<0, 1>>
    IN Min100(FracAdd(Weighted(patternRiskScore, 40),
              FracAdd(Weighted(flaggedPercentage, 35),
                      Weighted(Min100(debitCreditRatio), 25))))

\* parseFloat(x.toFixed(1)), as a number
toFixed1(v) == Round(Frac(10 * v[1], v[2])) * (Units(1) \div 10)

\* x.toFixed(1) for a number x of whole tenths, x >= 0
decimal1(x) ==
    ToString(x \div Units(1)) \o "." \o ToString((x % Units(1)) \div (Units(1) \div 10))

provideRuleBasedAnalysis(ts, dca) ==
    LET patterns == detectFraudPatterns(ts)
        fraudTxns == Len(SelectSeq(ts, LAMBDA t : t.isFraudulent))
        overallRisk == overallRiskOf(ts, patterns, dca)
    IN [summary |->
            "Analyzed " \o ToString(Len(ts)) \o " transactions. Detected "
            \o ToString(fraudTxns) \o " flagged transactions and "
            \o ToString(Len(patterns)) \o " fraud patterns.",
        fraudPatterns |-> patterns,
        debitCreditAnalysis |-> dca,
        riskAssessment |->
            "Your account has a " \o decimal1(toFixed1(overallRisk))
            \o "% fraud risk score. "
            \o (IF FracGe(overallRisk, 70)
                THEN "Multiple critical issues detected. Immediate review recommended."
                ELSE IF FracGe(overallRisk, 50)
                THEN "Several suspicious patterns identified. Enhanced monitoring advised."
                ELSE "No critical issues found."),
        recommendations |->
            <<"Monitor unusual merchant patterns regularly",
              "Enable transaction alerts for high-value transactions",
              "Review and verify one-time merchants",
              IF fraudTxns > 0 THEN "Contact bank if suspicious transactions found"
              ELSE "Maintain current security practices",
              "Keep transaction records for audit purposes">>
            \o (IF FracGe(overallRisk, 70)
                THEN <<"Consider updating account security and payment methods">>
                ELSE <<>>),
        overallFraudRisk |-> toFixed1(overallRisk)]

\* What the Gemini endpoint can answer: fetch rejects, a status that is not
\* OK, a body that is not JSON, a text without braces, a text whose braces
\* do not hold JSON, a text holding the JSON object parsed
Thrown == [threw |-> TRUE]

\* (parsed.patterns || []).map(...)
geminiPatterns(parsed) ==
    [i \in 1..Len(parsed.patterns) |->
        LET q == parsed.patterns[i]
        IN [pattern |-> q.pattern,
            frequency |-> IF q.frequency = 0 THEN 1 ELSE q.frequency,
            riskLevel |-> IF q.riskLevel = "" THEN "medium" ELSE q.riskLevel,
            affectedTransactions |-> IF q.frequency = 0 THEN 1 ELSE q.frequency]]

\* The object a missing or empty field gives: parsed = {}
EmptyParsed ==
    [summary |-> "", patterns |-> <<>>, riskAssessment |-> "",
     recommendations |-> <<>>, riskScore |-> 0]

\* The result built from the parsed object, each field with its default
geminiResult(parsed, dca) ==
    [summary |-> IF parsed.summary = "" THEN "Fraud analysis completed"
                 ELSE parsed.summary,
     fraudPatterns |-> geminiPatterns(parsed),
     debitCreditAnalysis |-> dca,
     riskAssessment |-> IF parsed.riskAssessment = "" THEN "Analysis in progress"
                        ELSE parsed.riskAssessment,
     recommendations |-> parsed.recommendations,
     overallFraudRisk |-> parsed.riskScore]

\* callGeminiForFraudAnalysis: the result, or Thrown
callGeminiForFraudAnalysis(dca, response) ==
    IF response.kind = "fetch rejected" THEN Thrown
    ELSE IF response.kind = "status not ok" THEN Thrown
    ELSE IF response.kind = "body not json" THEN Thrown
    ELSE IF response.kind = "text without braces" THEN geminiResult(EmptyParsed, dca)
    ELSE IF response.kind = "text with malformed json" THEN Thrown
    ELSE geminiResult(response.parsed, dca)

analyzeFraudWithLLM(ts, key, response) ==
    LET dca == calculateDebitCreditAnalysis(ts)
    IN IF key = "" THEN provideRuleBasedAnalysis(ts, dca)
       ELSE LET result == callGeminiForFraudAnalysis(dca, response)
            IN IF result = Thrown THEN provideRuleBasedAnalysis(ts, dca)
               ELSE result

-----------------------------------------------------------------------------
(* Calls of analyzeFraudWithLLM on drawn inputs *)

\* Longest run of equal transactions at the head of a drawn list: more than
\* the 15 of the velocity pattern
MaxHeadRun == 16

\* Longest run of equal transactions at the tail of a drawn list: more than
\* the 3 of the large-transaction pattern
MaxTailRun == 4

AnalysisKinds ==
    { [merchant |-> "Uber", amount |-> Amt(120, 0), category |-> "Transportation",
       type |-> "expense", date |-> Now0, isFraudulent |-> FALSE],
      [merchant |-> "Zara Outlet", amount |-> Amt(60000, 0), category |-> "Shopping",
       type |-> "expense", date |-> Now0 - Hours(48), isFraudulent |-> TRUE],
      [merchant |-> "Employer", amount |-> Amt(0 - 500, 0), category |-> "Salary",
       type |-> "income", date |-> Now0, isFraudulent |-> FALSE],
      [merchant |-> "Uber", amount |-> Junk, category |-> "Transportation",
       type |-> "expense", date |-> NaN, isFraudulent |-> FALSE],
      [merchant |-> "Corner Cafe", amount |-> Amt(1496, 0),
       category |-> "Food & Dining", type |-> "expense",
       date |-> Now0 + Hours(1), isFraudulent |-> TRUE] }

PretrainedPattern(key, frequency, score) ==
    [pattern |-> key, frequency |-> frequency, fraudRiskScore |-> score,
     description |-> key \o " (fraud rate " \o ToString(score \div 2) \o "%)"]

\* DatasetPatterns values for the analysis: no pattern, one pattern, more
\* than the 5 the analysis reads
AnalysisPatterns ==
    { [patterns |-> <<>>, highRiskMerchants |-> {}],
      [patterns |-> <<PretrainedPattern("type_transfer", 10, 20)>>,
       highRiskMerchants |-> {}],
      [patterns |-> <<PretrainedPattern("amount_very_high", 7, 100),
                      PretrainedPattern("type_cash_out", 30, 71),
                      PretrainedPattern("type_transfer", 12, 70),
                      PretrainedPattern("amount_high", 9, 51),
                      PretrainedPattern("amount_medium", 40, 31),
                      PretrainedPattern("amount_low", 50, 30)>>,
       highRiskMerchants |-> {"ZARA"}] }

GeminiPattern(pattern, riskLevel, frequency) ==
    [pattern |-> pattern, riskLevel |-> riskLevel, frequency |-> frequency]

GeminiResponses ==
    { [kind |-> "fetch rejected"], [kind |-> "status not ok"],
      [kind |-> "body not json"], [kind |-> "text without braces"],
      [kind |-> "text with malformed json"],
      [kind |-> "text with json",
       parsed |-> [summary |-> "Two risky merchants",
                   patterns |-> <<GeminiPattern("Round amounts", "high", 5),
                                  GeminiPattern("Night spending", "", 0)>>,
                   riskAssessment |-> "",
                   recommendations |-> <<"Review Zara Outlet">>,
                   riskScore |-> Units(45)]],
      [kind |-> "text with json", parsed |-> EmptyParsed] }

AnalysisInit ==
    /\ now = Now0
    /\ cachedPatterns = NoPatterns
    /\ FraudIdle
    /\ CategorizeIdle
    /\ HealthIdle
    /\ StorageEmpty
    /\ OverlapIdle
    /\ ProcessIdle
    /\ UpsertIdle
    /\ RouteIdle
    /\ DatasetIdle
    /\ \E a \in AnalysisKinds, b \in AnalysisKinds,
          n \in {0, 1, 3, 6, MaxHeadRun}, m \in {0, 1, MaxTailRun} :
          analysisTransactions = Rep(a, n) \o Rep(b, m)
    /\ apiKey \in {"", "key"}
    /\ geminiResponse = NoResponse
    /\ analysis = NoAnalysis
    /\ fetchCalls = 0
    /\ pretrainedPatterns = NotRead

\* analyzeFraudWithLLM(transactions, apiKey), the endpoint answering with
\* response when it is called
AnalyzeCall(response) ==
    /\ geminiResponse' = IF apiKey = "" THEN NoResponse ELSE response
    /\ analysis' = analyzeFraudWithLLM(analysisTransactions, apiKey, response)
    /\ fetchCalls' = IF apiKey = "" THEN 0 ELSE 1
    /\ pretrainedPatterns' =
           IF apiKey = "" \/ callGeminiForFraudAnalysis(
                                calculateDebitCreditAnalysis(analysisTransactions),
                                response) = Thrown
           THEN cachedPatterns ELSE NotRead
    /\ UNCHANGED <<now, cachedPatterns, fraudVars, categorizeVars, healthVars,
                   storageVars, analysisTransactions, apiKey,
                   datasetVars,
                   routeVars,
                   upsertVars,
                   processVars,
                   overlapVars>>

\* setPretrainedPatterns(patterns) with a snapshot the analysis reads
SetAnalysisPatterns ==
    \E p \in AnalysisPatterns : SetPretrainedPatterns(p)

AnalysisNext ==
    \/ \E response \in GeminiResponses : AnalyzeCall(response)
    \/ SetAnalysisPatterns

SpecAnalysis == AnalysisInit /\ [][AnalysisNext]_vars

-----------------------------------------------------------------------------
(* processDataset *)

\* records.slice(0, 50000)
RecordLimit == 50000

\* A CSV cell that is absent or empty
EmptyCell == [empty |-> TRUE]

\* parseFloat(record.TransactionAmt || record.Amount || "0"), the CSV having
\* the one amount column TransactionAmt
datasetAmount(record) ==
    IF record.TransactionAmt = EmptyCell THEN 0
    ELSE parseFloat(record.TransactionAmt)

\* extractPatterns(record, isFraud)
extractPatterns(record) ==
    LET amount == datasetAmount(record)
        hour == record.TransactionTime.hour
    IN (IF record.PaymentType # "" THEN <<"payment_" \o record.PaymentType>>
        ELSE <<>>)
       \o (IF record.DeviceType # "" THEN <<"device_" \o record.DeviceType>>
           ELSE <<>>)
       \o (IF FGt(amount, Units(100000)) THEN <<"amount_100k+">>
           ELSE IF FGt(amount, Units(50000)) THEN <<"amount_50k-100k">>
           ELSE IF FGt(amount, Units(10000)) THEN <<"amount_10k-50k">>
           ELSE IF FLt(amount, Units(100)) THEN <<"amount_under_100">>
           ELSE <<>>)
       \o (IF record.TransactionTime.text = "" \/ hour = NaN THEN <<>>
           ELSE IF hour >= 0 /\ hour < 6 THEN <<"time_early_morning">>
           ELSE IF hour >= 18 /\ hour < 24 THEN <<"time_evening">>
           ELSE IF hour >= 12 /\ hour < 18 THEN <<"time_afternoon">>
           ELSE <<>>)
       \o (IF record.Country # "" THEN <<"country_" \o record.Country>> ELSE <<>>)
       \o (IF record.Browser # "" THEN <<"browser_" \o record.Browser>> ELSE <<>>)

\* record.isFraud === "1"
isFraudRecord(record) == record.isFraud = "1"

\* The keys of patternFrequency in insertion order, after the records from
\* index i on
RECURSIVE patternKeys(_, _, _)
patternKeys(records, i, keys) ==
    IF i > Len(records) THEN keys
    ELSE LET new == SelectSeq(extractPatterns(records[i]),
                              LAMBDA k : \A j \in 1..Len(keys) : keys[j] # k)
         IN patternKeys(records, i + 1, keys \o new)

\* patternFrequency[pattern] after the loop
patternFrequencyOf(records, pattern) ==
    LET has(r) == \E j \in 1..Len(extractPatterns(r)) : extractPatterns(r)[j] = pattern
    IN [count |-> Len(SelectSeq(records, has)),
        fraudCount |-> Len(SelectSeq(records, LAMBDA r : has(r) /\ isFraudRecord(r)))]

\* getPatternDescription(pattern)
getPatternDescription(pattern) ==
    IF pattern = "payment_S" THEN "Shopping transaction"
    ELSE IF pattern = "payment_W" THEN "Withdrawal transaction"
    ELSE IF pattern = "payment_C" THEN "Cash transaction"
    ELSE IF pattern = "device_desktop" THEN "Desktop device"
    ELSE IF pattern = "device_mobile" THEN "Mobile device"
    ELSE IF pattern = "amount_100k+" THEN "Very high transaction amount (100k+)"
    ELSE IF pattern = "amount_50k-100k" THEN "High transaction amount (50k-100k)"
    ELSE IF pattern = "amount_10k-50k" THEN "Medium-high transaction amount (10k-50k)"
    ELSE IF pattern = "amount_under_100" THEN "Very low transaction amount"
    ELSE IF pattern = "time_early_morning" THEN "Early morning transaction (12am-6am)"
    ELSE IF pattern = "time_evening" THEN "Evening transaction (6pm-12am)"
    ELSE IF pattern = "time_afternoon" THEN "Afternoon transaction (12pm-6pm)"
    ELSE pattern

\* The fraud rate in percent, rounded and capped, without the factor 2
fraudRiskScorePlain(data) ==
    LET r == Round(Frac(100 * data.fraudCount, data.count))
    IN IF r > 100 THEN 100 ELSE r

\* Math.min(100, Math.round(fraudRatePercent * 2))
fraudRiskScoreOf(data) ==
    LET r == Round(Frac(2 * 100 * data.fraudCount, data.count))
    IN IF r > 100 THEN 100 ELSE r

\* One insertion of .sort((a, b) => b.fraudRiskScore - a.fraudRiskScore), a
\* stable sort: p goes before the first entry of a lower score
RECURSIVE insertByScore(_, _)
insertByScore(sorted, p) ==
    IF sorted = <<>> THEN <<p>>
    ELSE IF p.fraudRiskScore > Head(sorted).fraudRiskScore THEN <<p>> \o sorted
    ELSE <<Head(sorted)>> \o insertByScore(Tail(sorted), p)

RECURSIVE sortByScoreDesc(_)
sortByScoreDesc(ps) ==
    IF ps = <<>> THEN <<>>
    ELSE insertByScore(sortByScoreDesc(SubSeq(ps, 1, Len(ps) - 1)), ps[Len(ps)])

\* s.slice(0, n)
sliceTo(s, n) == SubSeq(s, 1, IF Len(s) < n THEN Len(s) ELSE n)

\* record.Merchant || `Merchant_${record.MerchantID || "Unknown"}`
merchantKey(record) ==
    IF record.Merchant # "" THEN record.Merchant
    ELSE "Merchant_" \o (IF record.MerchantID # "" THEN record.MerchantID
                         ELSE "Unknown")

\* r.Merchant || `Merchant_${r.MerchantID}`, a missing id printed as undefined
merchantKeyOfFilter(record) ==
    IF record.Merchant # "" THEN record.Merchant
    ELSE "Merchant_" \o (IF record.MerchantID # "" THEN record.MerchantID
                         ELSE Undefined)

\* The keys of merchantFraudMap in insertion order
RECURSIVE merchantKeys(_, _, _)
merchantKeys(records, i, keys) ==
    IF i > Len(records) THEN keys
    ELSE IF \E j \in 1..Len(keys) : keys[j] = merchantKey(records[i])
    THEN merchantKeys(records, i + 1, keys)
    ELSE merchantKeys(records, i + 1, Append(keys, merchantKey(records[i])))

\* fraudCount / totalForMerchant > 0.05
isHighRiskMerchant(records, merchant) ==
    LET fraudCount ==
            Len(SelectSeq(records, LAMBDA r : merchantKey(r) = merchant
                                               /\ isFraudRecord(r)))
        totalForMerchant ==
            Len(SelectSeq(records, LAMBDA r : merchantKeyOfFilter(r) = merchant))
    IN IF totalForMerchant = 0 THEN fraudCount > 0
       ELSE 100 * fraudCount > 5 * totalForMerchant

\* processDataset(csvContent), the CSV given as its records
processDataset(records) ==
    LET recordsToProcess == sliceTo(records, RecordLimit)
        keys == patternKeys(recordsToProcess, 1, <<>>)
        withFraud ==
            SelectSeq(keys, LAMBDA k :
                patternFrequencyOf(recordsToProcess, k).fraudCount > 0)
        scored ==
            [i \in 1..Len(withFraud) |->
                LET data == patternFrequencyOf(recordsToProcess, withFraud[i])
                IN [pattern |-> withFraud[i],
                    frequency |-> data.count,
                    fraudRiskScore |-> fraudRiskScoreOf(data),
                    description |-> getPatternDescription(withFraud[i])]]
        patterns == sliceTo(sortByScoreDesc(scored), 15)
        indicators == SelectSeq(patterns, LAMBDA q : q.fraudRiskScore > 40)
        merchants ==
            sliceTo(SelectSeq(merchantKeys(recordsToProcess, 1, <<>>),
                              LAMBDA m : isHighRiskMerchant(recordsToProcess, m)),
                    10)
        totalFraud == Len(SelectSeq(recordsToProcess, isFraudRecord))
    IN [patterns |-> patterns,
        totalTransactionsAnalyzed |-> Len(recordsToProcess),
        fraudPercentage |-> FDiv(100 * totalFraud, Len(recordsToProcess)),
        lastUpdated |-> now,
        highRiskMerchants |-> {merchants[i] : i \in 1..Len(merchants)},
        commonFraudIndicators |->
            [i \in 1..Len(indicators) |-> indicators[i].pattern]]

\* initializeDatasetPatterns() without its outer try/catch: the error of
\* parseCSV leaves the function
initializeWithoutCatch(dataset, cache) ==
    IF ~dataset.found \/ dataset.csv = "none"
    THEN [returned |-> TRUE, threw |-> FALSE, value |-> NoPatterns,
          cache |-> cache, writes |-> 0]
    ELSE IF dataset.csv = "malformed"
    THEN [returned |-> TRUE, threw |-> TRUE, value |-> NoPatterns,
          cache |-> cache, writes |-> 0]
    ELSE [returned |-> TRUE, threw |-> FALSE,
          value |-> processDataset(dataset.records),
          cache |-> processDataset(dataset.records), writes |-> 1]

\* initializeDatasetPatterns(): what it returns, the cache it leaves, and the
\* assignments to the cache it made. Without a ZIP file, or without a CSV
\* in it, it returns null; an error of processDataset is caught and null
\* returned; otherwise the mined patterns are cached and returned
initializeDatasetPatterns(dataset, cache) ==
    IF ~dataset.found \/ dataset.csv # "parsed"
    THEN [returned |-> TRUE, threw |-> FALSE, value |-> NoPatterns,
          cache |-> cache, writes |-> 0]
    ELSE [returned |-> TRUE, threw |-> FALSE,
          value |-> processDataset(dataset.records),
          cache |-> processDataset(dataset.records), writes |-> 1]

\* A call of initializeDatasetPatterns()
InitializeDatasetPatterns ==
    /\ cachedPatterns' = initializeDatasetPatterns(datasetCsv, cachedPatterns).cache
    /\ UNCHANGED <<now, fraudVars, categorizeVars, healthVars, storageVars,
                   analysisVars, datasetVars,
                   routeVars,
                   upsertVars,
                   processVars,
                   overlapVars>>

-----------------------------------------------------------------------------
(* Runs of initializeDatasetPatterns on drawn datasets *)

\* Longest run of equal records in a drawn dataset
MaxRecordRun == 9

TimeCell(text, hour) == [text |-> text, hour |-> hour]

DatasetRecord(fraud, payment, device, amount, time, country, browser, merchant) ==
    [isFraud |-> fraud, PaymentType |-> payment, DeviceType |-> device,
     TransactionAmt |-> amount, TransactionTime |-> time, Country |-> country,
     Browser |-> browser, Merchant |-> merchant, MerchantID |-> ""]

\* Three fraudulent records without a key in common, a fraudulent and two
\* legitimate records sharing keys with them, a record without an amount
DatasetKinds ==
    { DatasetRecord("1", "W", "mobile", Amt(150000, 0), TimeCell("03:00", 3),
                    "IN", "chrome", "Zara"),
      DatasetRecord("1", "C", "desktop", Amt(60000, 0), TimeCell("19:00", 19),
                    "US", "safari", "Uber"),
      DatasetRecord("1", "S", "tablet", Amt(20000, 0), TimeCell("13:00", 13),
                    "UK", "firefox", ""),
      DatasetRecord("1", "W", "", Amt(500, 0), TimeCell("", NaN), "", "", "Zara"),
      DatasetRecord("0", "W", "mobile", Amt(150000, 0), TimeCell("03:00", 3),
                    "IN", "chrome", "Zara"),
      DatasetRecord("0", "C", "", Junk, TimeCell("soon", NaN), "IN", "", "Uber"),
      DatasetRecord("0", "", "", EmptyCell, TimeCell("08:00", 8), "", "", "") }

\* The kinds a drawn dataset ends with
DatasetLastKinds ==
    { DatasetRecord("1", "S", "tablet", Amt(20000, 0), TimeCell("13:00", 13),
                    "UK", "firefox", ""),
      DatasetRecord("0", "", "", Amt(500, 0), TimeCell("", NaN), "", "", "") }

DatasetInit ==
    /\ now = Now0
    /\ cachedPatterns = NoPatterns
    /\ FraudIdle
    /\ CategorizeIdle
    /\ HealthIdle
    /\ StorageEmpty
    /\ OverlapIdle
    /\ ProcessIdle
    /\ UpsertIdle
    /\ RouteIdle
    /\ AnalysisIdle
    /\ \/ datasetCsv \in {NoDataset, NoCsvInDataset, MalformedDataset}
       \/ \E a \in DatasetKinds, b \in DatasetKinds, c \in DatasetKinds,
             d \in DatasetLastKinds, n \in {0, 1, MaxRecordRun}, m \in {0, 1, 2} :
             datasetCsv = [found |-> TRUE, csv |-> "parsed",
                           records |-> Rep(a, n) \o Rep(b, m) \o <<c, d>>]

DatasetNext == InitializeDatasetPatterns

SpecDataset == DatasetInit /\ [][DatasetNext]_vars

-----------------------------------------------------------------------------
(* Runs of initializeDatasetPatterns on datasets of few merchants *)

\* Longest run of legitimate records of one merchant in a drawn dataset
MaxQuietRun == 20

\* A record of the merchant, or of no merchant at all
MerchantRecord(fraud, merchant, id) ==
    [isFraud |-> fraud, PaymentType |-> "W", DeviceType |-> "",
     TransactionAmt |-> EmptyCell, TransactionTime |-> TimeCell("", NaN),
     Country |-> "", Browser |-> "", Merchant |-> merchant, MerchantID |-> id]

\* Who the records of a drawn dataset are of: a named merchant, a merchant
\* known by its id, no merchant
MerchantCells == { <<"Zara", "">>, <<"", "M17">>, <<"", "">> }

MerchantsInit ==
    /\ now = Now0
    /\ cachedPatterns = NoPatterns
    /\ FraudIdle
    /\ CategorizeIdle
    /\ HealthIdle
    /\ StorageEmpty
    /\ OverlapIdle
    /\ ProcessIdle
    /\ UpsertIdle
    /\ RouteIdle
    /\ AnalysisIdle
    /\ \E a \in MerchantCells, b \in MerchantCells,
          n \in {0, 1, MaxQuietRun - 1, MaxQuietRun}, f \in {0, 1, 2}, k \in {0, 1} :
          datasetCsv =
              [found |-> TRUE, csv |-> "parsed",
               records |-> Rep(MerchantRecord("0", a[1], a[2]), n)
                           \o Rep(MerchantRecord("1", a[1], a[2]), f)
                           \o Rep(MerchantRecord("0", b[1], b[2]), k)]

MerchantsNext == InitializeDatasetPatterns

SpecMerchants == MerchantsInit /\ [][MerchantsNext]_vars

-----------------------------------------------------------------------------
(* One server process: the startup initialization, then the routes that
   read the dataset cache *)

\* registerRoutes(app), up to the definition of the routes: the one call of
\* initializeDatasetPatterns of the process
RegisterRoutes ==
    LET init == initializeDatasetPatterns(datasetCsv, cachedPatterns)
    IN /\ phase = "starting"
       /\ phase' = "serving"
       /\ initReturn' = init
       /\ cachedPatterns' = init.cache
       /\ cacheWrites' = cacheWrites + init.writes
       /\ UNCHANGED <<now, fraudVars, categorizeVars, healthVars, storageVars,
                      analysisVars, datasetVars, routeVars, upsertVars,
                      systemStatus,
                   overlapVars>>

\* Two digits
twoDigits(n) == IF n < 10 THEN "0" \o ToString(n) ELSE ToString(n)

\* v.toFixed(2) for v >= 0
fixed2Text(v) ==
    IF IsNaNFrac(v) THEN "NaN"
    ELSE LET hundredths == Round(Frac(100 * v[1], v[2]))
         IN ToString(hundredths \div 100) \o "." \o twoDigits(hundredths % 100)

\* A null datasetInfo
NullInfo == [null |-> TRUE]

\* The body GET /api/system/status answers with
systemStatusOf(key, datasetPatterns) ==
    LET gemini == IF key # "" THEN "active" ELSE "inactive"
    IN [status |-> 200,
        geminiApiConfigured |-> key # "",
        geminiApiKeyPresent |-> IF key # "" THEN "configured" ELSE "not_configured",
        datasetTrained |-> datasetPatterns # NoPatterns,
        datasetInfo |->
            IF datasetPatterns # NoPatterns
            THEN [totalTransactionsAnalyzed |->
                      datasetPatterns.totalTransactionsAnalyzed,
                  patternsLearned |-> Len(datasetPatterns.patterns),
                  fraudPercentage |->
                      fixed2Text(datasetPatterns.fraudPercentage) \o "%",
                  lastUpdated |-> datasetPatterns.lastUpdated,
                  highRiskMerchants |->
                      Cardinality(datasetPatterns.highRiskMerchants),
                  commonFraudIndicators |->
                      Len(datasetPatterns.commonFraudIndicators)]
            ELSE NullInfo,
        message |->
            IF datasetPatterns # NoPatterns
            THEN "System ready: Gemini API " \o gemini
                 \o ", IEEE dataset loaded with "
                 \o ToString(datasetPatterns.totalTransactionsAnalyzed)
                 \o " transactions analyzed"
            ELSE "System ready: Gemini API " \o gemini
                 \o ", No pretrained dataset (add ieee-fraud-detection.zip to enable)"]

\* GET /api/system/status
GetSystemStatus ==
    /\ phase = "serving"
    /\ systemStatus' = systemStatusOf(apiKey, cachedPatterns)
    /\ UNCHANGED <<now, cachedPatterns, fraudVars, categorizeVars, healthVars,
                   storageVars, analysisVars, datasetVars, routeVars, upsertVars,
                   phase, initReturn, cacheWrites,
                   overlapVars>>

\* GET /api/fraud-analysis/:userId, on the transactions of the user
GetFraudAnalysis ==
    /\ phase = "serving"
    /\ \E response \in GeminiResponses : AnalyzeCall(response)

\* The datasets the process can find at startup
ProcessDatasets ==
    { NoDataset, NoCsvInDataset, MalformedDataset,
      [found |-> TRUE, csv |-> "parsed", records |-> <<>>] }
    \cup
    { [found |-> TRUE, csv |-> "parsed", records |-> <<a, b>>] :
          a \in DatasetKinds, b \in DatasetLastKinds }

ProcessInit ==
    /\ now = Now0
    /\ cachedPatterns = NoPatterns
    /\ FraudIdle
    /\ CategorizeIdle
    /\ HealthIdle
    /\ StorageEmpty
    /\ OverlapIdle
    /\ ProcessIdle
    /\ UpsertIdle
    /\ RouteIdle
    /\ datasetCsv \in ProcessDatasets
    /\ \E a \in AnalysisKinds, n \in {0, 1, 3} : analysisTransactions = Rep(a, n)
    /\ apiKey \in {"", "key"}
    /\ geminiResponse = NoResponse
    /\ analysis = NoAnalysis
    /\ fetchCalls = 0
    /\ pretrainedPatterns = NotRead

ProcessNext ==
    \/ RegisterRoutes
    \/ GetSystemStatus
    \/ GetFraudAnalysis

SpecProcess == ProcessInit /\ [][ProcessNext]_vars

-----------------------------------------------------------------------------
(* Properties of detectFraud *)

Called == fraudCheck # NoResult

candidateAmount == parseFloat(transaction.amount)

HistoryIndexes == 1..Len(recentTransactions)

SetMax(S) == CHOOSE m \in S : \A x \in S : x <= m

\* t is dated inside the trailing window [now - w, now]
InTrailing(t, w) == t.date # NaN /\ now - w <= t.date /\ t.date <= now

\* t is dated no earlier than now - w, possibly after now
NotOlder(t, w) == t.date # NaN /\ now - t.date <= w

SameMerchant(t) == toLowerCase(t.merchant) = toLowerCase(transaction.merchant)

CloseAmount(t) ==
    LET a == parseFloat(t.amount) IN
    /\ a # NaN
    /\ candidateAmount # NaN
    /\ Abs(a - candidateAmount) < Units(1) \div 100

CountTrailing(w) ==
    Cardinality({i \in HistoryIndexes : InTrailing(recentTransactions[i], w)})

CountNotOlder(w) ==
    Cardinality({i \in HistoryIndexes : NotOlder(recentTransactions[i], w)})

DuplicateTrailing ==
    \E i \in HistoryIndexes :
        LET t == recentTransactions[i] IN
        SameMerchant(t) /\ CloseAmount(t) /\ InTrailing(t, Hours(1))

DuplicateNotOlder ==
    \E i \in HistoryIndexes :
        LET t == recentTransactions[i] IN
        SameMerchant(t) /\ CloseAmount(t) /\ NotOlder(t, Hours(1))

MerchantSeen == \E i \in HistoryIndexes : SameMerchant(recentTransactions[i])

\* The scores of the rules whose condition, as the code evaluates it, holds
TriggeredScores ==
       (IF candidateAmount # NaN /\ candidateAmount > Units(50000) THEN {55} ELSE {})
    \cup (IF candidateAmount # NaN /\ candidateAmount > Units(100000) THEN {85} ELSE {})
    \cup (IF CountNotOlder(Hours(24)) >= 20 THEN {70} ELSE {})
    \cup (IF CountNotOlder(Minutes(5)) >= 10 THEN {80} ELSE {})
    \cup (IF ~MerchantSeen /\ candidateAmount # NaN /\ candidateAmount > Units(10000)
        THEN {40} ELSE {})
    \cup (IF DuplicateNotOlder THEN {90} ELSE {})

\* The rules the call pushed onto its risks array
PushedScores ==
    LET risks == risksOf(transaction, recentTransactions) IN
    {risks[i].score : i \in 1..Len(risks)}

RuleReason(score) ==
    CASE score = 55 -> "Unusually large transaction amount"
      [] score = 85 -> "Extremely large transaction amount"
      [] score = 70 -> "High transaction velocity (20+ transactions in 24 hours)"
      [] score = 80 -> "Multiple rapid transactions (10+ in 5 minutes)"
      [] score = 40 -> "First-time merchant with large amount"
      [] score = 90 -> "Potential duplicate transaction"
      [] OTHER -> Undefined

\* C1: the risk score returned is the largest score among the rules that
\* triggered, 0 when none did, and the verdict is fraudulent exactly when
\* that score is at least 85.
C1_ScoreIsMaxOfTriggered ==
    Called =>
        /\ fraudCheck.riskScore = SetMax(TriggeredScores \cup {0})
        /\ fraudCheck.isFraudulent <=> fraudCheck.riskScore >= 85

\* Three rules triggered at once and the largest of them, 80, was returned.
C1_Witness ==
    /\ Called
    /\ {55, 70, 80} \subseteq TriggeredScores
    /\ fraudCheck.riskScore = 80
    /\ ~fraudCheck.isFraudulent

\* C2: a history transaction of the candidate's merchant (ignoring case) and
\* amount (within 0.01) dated in the trailing hour gives score 90, a
\* fraudulent verdict and the duplicate reason; without such a transaction
\* the duplicate rule does not trigger.
C2_DuplicateExactlyInTrailingHour ==
    Called =>
        IF DuplicateTrailing
        THEN /\ fraudCheck.riskScore = 90
             /\ fraudCheck.isFraudulent
             /\ fraudCheck.reason = "Potential duplicate transaction"
        ELSE 90 \notin PushedScores

\* C3: an amount above 100,000 with no duplicate in the history gives score
\* 85 and a fraudulent verdict, whatever else triggered.
C3_VeryLargeAmountScores85 ==
    (Called /\ candidateAmount # NaN /\ candidateAmount > Units(100000)
        /\ 90 \notin PushedScores)
    => /\ fraudCheck.riskScore = 85
       /\ fraudCheck.isFraudulent
       /\ {55, 85} \subseteq PushedScores

\* Amount 100,000.001 against an empty history scored 85.
C3_Witness ==
    /\ Called
    /\ candidateAmount = Units(100000) + 1
    /\ recentTransactions = <<>>
    /\ fraudCheck.riskScore = 85
    /\ fraudCheck.isFraudulent

C5_ReasonOfMaxAlways ==
    (Called /\ PushedScores # {})
    => fraudCheck.reason = RuleReason(fraudCheck.riskScore)

\* C5 amended: the reason returned is the reason of the rule that produced
\* the returned score when that score is at least 85 (a fraudulent
\* verdict), and undefined otherwise.
C5_ReasonOfMaxWhenFraudulent ==
    Called =>
        fraudCheck.reason =
            IF fraudCheck.riskScore >= 85
            THEN RuleReason(fraudCheck.riskScore)
            ELSE Undefined

\* Rules 1 and 2 both triggered and the reason is rule 2's.
C5_Witness ==
    /\ Called
    /\ PushedScores = {55, 85}
    /\ fraudCheck.reason = "Extremely large transaction amount"

\* C6: the velocity rule triggers exactly when at least 20 history
\* transactions are dated in [now - 24h, now] and the rapid rule exactly
\* when at least 10 are dated in [now - 5min, now]; transactions dated
\* after now do not count.
C6_VelocityCountsTrailingWindow ==
    Called =>
        /\ 70 \in PushedScores <=> CountTrailing(Hours(24)) >= 20
        /\ 80 \in PushedScores <=> CountTrailing(Minutes(5)) >= 10

\* C8: two calls of detectFraud on the same candidate, history and clock
\* return the same result, whatever the dataset cache held at each call.
C8_ResultIndependentOfCache ==
    [][(Called /\ fraudCheck' # NoResult) => fraudCheck' = fraudCheck]_vars

\* detectFraud has returned under a null cache and under a populated one.
C8_Witness ==
    /\ checkedUnder = {TRUE, FALSE}
    /\ fraudCheck.riskScore = 90

-----------------------------------------------------------------------------
(* Properties of categorizeTransaction *)

\* The categories in their fixed order, each with its keywords
CategoryTable ==
    << [name |-> "Food & Dining",
        keywords |-> {"restaurant", "cafe", "coffee", "pizza", "burger", "food",
                      "grubhub", "doordash", "ubereats"}],
       [name |-> "Groceries",
        keywords |-> {"grocery", "supermarket", "walmart", "target",
                      "whole foods", "trader joe"}],
       [name |-> "Transportation",
        keywords |-> {"uber", "lyft", "taxi", "gas", "fuel", "parking"}],
       [name |-> "Shopping",
        keywords |-> {"amazon", "ebay", "mall", "store"}],
       [name |-> "Entertainment",
        keywords |-> {"netflix", "spotify", "hulu", "cinema", "theater", "movie"}],
       [name |-> "Utilities",
        keywords |-> {"electric", "water", "internet", "phone", "verizon", "at&t"}],
       [name |-> "Healthcare",
        keywords |-> {"pharmacy", "hospital", "doctor", "medical", "cvs",
                      "walgreens"}],
       [name |-> "Travel",
        keywords |-> {"airline", "hotel", "airbnb", "booking"}] >>

\* Some keyword of the k-th category is in m, ignoring case
MatchesCategory(m, k) ==
    \E kw \in CategoryTable[k].keywords : includes(toLowerCase(m), kw)

FirstMatchingCategory(m) ==
    LET hits == {k \in 1..Len(CategoryTable) : MatchesCategory(m, k)} IN
    IF hits = {} THEN "Other"
    ELSE CategoryTable[CHOOSE k \in hits : \A j \in hits : k <= j].name

\* C9: the category returned is the first category, in the fixed order,
\* one of whose keywords is in the merchant ignoring case, "Other" when
\* there is none; it is one of the nine, whatever the amount argument.
C9_FirstMatchingCategoryWins ==
    categoryOut # NoCategory =>
        /\ categoryOut = FirstMatchingCategory(merchantArg)
        /\ categoryOut \in {CategoryTable[k].name : k \in 1..Len(CategoryTable)}
                         \cup {"Other"}

\* A merchant with keywords of two categories went to the earlier one, and
\* only its upper-case letters matched.
C9_Witness ==
    /\ categoryOut = "Transportation"
    /\ amountArg = Units(60000)
    /\ MatchesCategory(merchantArg, 3)
    /\ MatchesCategory(merchantArg, 8)
    /\ ~includes(merchantArg, "uber")
    /\ includes(merchantArg, "UBER")

-----------------------------------------------------------------------------
(* Properties of calculateFinancialHealth *)

\* C10: with an empty transaction list or a monthly income of 0 the score
\* and the five components returned are all 50, whatever the other
\* argument, and the call evaluates no division.
C10_NeutralDefaultWithoutDivision ==
    (health # NoHealth /\ (Len(transactions) = 0 \/ monthlyIncome = 0))
    => /\ \A f \in DOMAIN health : health[f] = 50
       /\ DOMAIN health = {"score", "incomeStability", "expenseRatio",
                            "savingsRate", "debtRatio", "liquidity"}
       /\ divisions = {}

\* Income 0 with transactions whose expenses are 0 returned the defaults:
\* the later expression savingsAmount / monthlyExpenses was not reached.
C10_Witness ==
    /\ health = DefaultHealth
    /\ monthlyIncome = 0
    /\ Len(transactions) > 0
    /\ windowExpenses(transactions) = 0
    /\ windowIncome(transactions) > 0
    /\ divisions = {}

\* The call took the computing path, not the neutral default
HealthComputed ==
    /\ health # NoHealth
    /\ Len(transactions) # 0
    /\ monthlyIncome # 0

HealthFields ==
    {"score", "incomeStability", "expenseRatio", "savingsRate", "debtRatio",
     "liquidity"}

\* Every amount of the list is a decimal number
AmountsParse ==
    \A i \in 1..Len(transactions) : transactions[i].amount.valid

\* C11: for every transaction list whose amounts are numbers, negative ones
\* included, and every numeric monthly income, each of the six values
\* calculateFinancialHealth returns is an integer in 0..100.
C11_AllValuesWithin0To100 ==
    (health # NoHealth /\ AmountsParse /\ monthlyIncome # NaN)
    => \A f \in HealthFields : health[f] \in 0..100

\* C12: on the computing path liquidity is 0 whenever savingsAmount
\* (windowed income minus windowed expenses) is <= 0 or the windowed
\* expenses, hence the monthly expense, are 0.
C12_LiquidityZeroWithoutExpenses ==
    LET income == windowIncome(transactions)
        expenses == windowExpenses(transactions)
    IN (HealthComputed /\ monthlyIncome # NaN /\ income # NaN /\ expenses # NaN
        /\ (income - expenses <= 0 \/ expenses = 0))
       => health.liquidity = 0

\* Transactions dated within the trailing 3 months: from threeMonthsAgo up
\* to now
TrailingThreeMonths(txs) ==
    SelectSeq(txs, LAMBDA t : /\ t.date # NaN
                              /\ threeMonthsAgo <= t.date
                              /\ t.date <= now)

\* 85 for at least 3 income transactions, min(20 * count, 100) otherwise
StabilityOfCount(n) == IF n >= 3 THEN 85 ELSE IF 20 * n < 100 THEN 20 * n ELSE 100

\* round(0.20 a + 0.25 b + 0.25 c + 0.15 d + 0.15 e) clamped to [0, 100], for
\* components given as fractions
CompositeOf(c) ==
    LET parts == <<Weighted(c.incomeStability, 20), Weighted(c.expenseRatio, 25),
                   Weighted(c.savingsRate, 25), Weighted(c.debtRatio, 15),
                   Weighted(c.liquidity, 15)>>
        sum == FracAdd(parts[1], FracAdd(parts[2], FracAdd(parts[3],
                       FracAdd(parts[4], parts[5]))))
    IN clampScore(Round(sum))

\* C13: on the computing path the composite score is the rounded, clamped
\* weighted sum of the components of the transactions dated within the
\* trailing 3 months from now, and incomeStability is 85 for at least 3 income
\* transactions among them, min(20 * count, 100) otherwise.
C13_CompositeOverTrailingWindow ==
    LET window == TrailingThreeMonths(transactions)
        incomes == SelectSeq(window, LAMBDA t : t.type = "income")
    IN (HealthComputed /\ monthlyIncome # NaN)
       => /\ health.incomeStability = StabilityOfCount(Len(incomes))
          /\ health.score = CompositeOf(healthComponents(window, monthlyIncome))

-----------------------------------------------------------------------------
(* Properties of analyzeFraudWithLLM *)

AnalyzedWithoutKey == analysis # NoAnalysis /\ apiKey = ""

\* Debit and credit totals and counts all zero
TotalsZero ==
    /\ analysis.debitCreditAnalysis.totalDebits = 0
    /\ analysis.debitCreditAnalysis.totalCredits = 0
    /\ analysis.debitCreditAnalysis.debitCount = 0
    /\ analysis.debitCreditAnalysis.creditCount = 0

\* C14, as stated: without an API key analyzeFraudWithLLM never throws and
\* never calls the external API, whatever the transactions and the dataset
\* cache; for the empty list the totals and counts are zero, fraudPatterns is
\* empty and overallFraudRisk is 0.
C14_NoKeyEmptyListIsAllZero ==
    AnalyzedWithoutKey =>
        /\ analysis # Thrown
        /\ fetchCalls = 0
        /\ analysisTransactions = <<>> =>
              /\ TotalsZero
              /\ analysis.fraudPatterns = <<>>
              /\ analysis.overallFraudRisk = 0

\* The dataset cache the call read holds patterns
ReadPatterns ==
    pretrainedPatterns # NoPatterns /\ Len(pretrainedPatterns.patterns) > 0

LevelWeight(score) ==
    IF score > 70 THEN 100 ELSE IF score > 50 THEN 70 ELSE IF score > 30 THEN 50 ELSE 20

\* C14, amended: without an API key analyzeFraudWithLLM never throws and
\* never calls the external API; for the empty list the totals and counts are
\* zero; fraudPatterns is empty and overallFraudRisk is 0 when the dataset
\* cache holds no pattern, and otherwise fraudPatterns lists the first 5
\* patterns of the cache and overallFraudRisk is 0.4 times the mean weight of
\* their risk levels, to one decimal.
C14_NoKeyEmptyListShowsDatasetPatterns ==
    AnalyzedWithoutKey =>
        /\ analysis # Thrown
        /\ fetchCalls = 0
        /\ analysisTransactions = <<>> =>
              /\ TotalsZero
              /\ ~ReadPatterns =>
                    /\ analysis.fraudPatterns = <<>>
                    /\ analysis.overallFraudRisk = 0
              /\ ReadPatterns =>
                    LET given == pretrainedPatterns.patterns
                        k == IF Len(given) < 5 THEN Len(given) ELSE 5
                        weights == {<<i, LevelWeight(given[i].fraudRiskScore)>> :
                                       i \in 1..k}
                        RECURSIVE Total(_)
                        Total(S) == IF S = {} THEN 0
                                    ELSE LET x == CHOOSE y \in S : TRUE
                                         IN x[2] + Total(S \ {x})
                    IN /\ Len(analysis.fraudPatterns) = k
                       /\ \A i \in 1..k :
                             analysis.fraudPatterns[i].frequency = given[i].frequency
                       /\ analysis.overallFraudRisk =
                             ((2 * 4 * Total(weights) + k) \div (2 * k))
                             * (Units(1) \div 10)

\* A call without a key on the empty list while the cache holds more than 5
\* patterns
C14_Witness ==
    /\ AnalyzedWithoutKey
    /\ analysisTransactions = <<>>
    /\ ReadPatterns
    /\ Len(pretrainedPatterns.patterns) > 5
    /\ Len(analysis.fraudPatterns) = 5
    /\ analysis.overallFraudRisk > 0

\* The external call failed: fetch rejected, the status was not OK, or no
\* JSON object could be parsed from the response
CallFailed ==
    geminiResponse.kind \in {"fetch rejected", "status not ok", "body not json",
                             "text without braces", "text with malformed json"}

\* C15: when an API key is supplied and the external call fails in any way,
\* analyzeFraudWithLLM surfaces no error and returns the report of the
\* rule-based path for the same transactions, having called the external API
\* at most once.
C15_FailedCallFallsBackToRules ==
    (analysis # NoAnalysis /\ apiKey # "" /\ CallFailed) =>
        /\ analysis # Thrown
        /\ fetchCalls <= 1
        /\ pretrainedPatterns # NotRead
        /\ pretrainedPatterns = cachedPatterns =>
              analysis = provideRuleBasedAnalysis(
                             analysisTransactions,
                             calculateDebitCreditAnalysis(analysisTransactions))

-----------------------------------------------------------------------------
(* Properties of processDataset *)

\* The pattern keys of the dataset
DatasetKeys ==
    UNION { {extractPatterns(datasetCsv.records[i])[j] :
                 j \in 1..Len(extractPatterns(datasetCsv.records[i]))} :
            i \in 1..Len(datasetCsv.records) }

\* The records carrying key k, and the fraudulent ones among them
RecordCount(k) ==
    Cardinality({i \in 1..Len(datasetCsv.records) :
        \E j \in 1..Len(extractPatterns(datasetCsv.records[i])) :
            extractPatterns(datasetCsv.records[i])[j] = k})

FraudCount(k) ==
    Cardinality({i \in 1..Len(datasetCsv.records) :
        /\ datasetCsv.records[i].isFraud = "1"
        /\ \E j \in 1..Len(extractPatterns(datasetCsv.records[i])) :
              extractPatterns(datasetCsv.records[i])[j] = k})

\* min(100, round(2 * 100 * fraudCount / count)), halves rounded up
ExpectedScore(k) ==
    LET twice == (2 * 2 * 100 * FraudCount(k) + RecordCount(k))
                 \div (2 * RecordCount(k))
    IN IF twice > 100 THEN 100 ELSE twice

Mined == datasetCsv.csv = "parsed" /\ cachedPatterns # NoPatterns

\* C16: the patterns of the mined snapshot are pattern keys with a fraud
\* count above 0, each once, with frequency = its record count and
\* fraudRiskScore = min(100, round(2 * 100 * fraudCount / count)), in
\* descending order of score, the 15 highest when there are more;
\* commonFraudIndicators is the keys of the listed patterns scoring above 40;
\* a key on 10 records of which 1 is fraudulent scores 20.
C16_MinedPatternsAreScoredKeys ==
    Mined =>
        LET ps == cachedPatterns.patterns
            listed == {ps[i].pattern : i \in 1..Len(ps)}
            fraudKeys == {k \in DatasetKeys : FraudCount(k) > 0}
            above40 == SelectSeq(ps, LAMBDA q : q.fraudRiskScore > 40)
        IN /\ listed \subseteq fraudKeys
           /\ Cardinality(listed) = Len(ps)
           /\ Len(ps) = IF Cardinality(fraudKeys) < 15 THEN Cardinality(fraudKeys)
                        ELSE 15
           /\ \A i \in 1..Len(ps) :
                 /\ ps[i].frequency = RecordCount(ps[i].pattern)
                 /\ ps[i].fraudRiskScore = ExpectedScore(ps[i].pattern)
           /\ \A i \in 1..Len(ps), j \in 1..Len(ps) :
                 i < j => ps[i].fraudRiskScore >= ps[j].fraudRiskScore
           /\ \A k \in fraudKeys \ listed, i \in 1..Len(ps) :
                 ExpectedScore(k) <= ps[i].fraudRiskScore
           /\ cachedPatterns.commonFraudIndicators =
                 [i \in 1..Len(above40) |-> above40[i].pattern]
           /\ \A i \in 1..Len(ps) :
                 (RecordCount(ps[i].pattern) = 10 /\ FraudCount(ps[i].pattern) = 1)
                 => ps[i].fraudRiskScore = 20

\* A dataset with more than 15 fraudulent keys, one of them on 10 records of
\* which 1 is fraudulent
C16_Witness ==
    /\ Mined
    /\ Cardinality({k \in DatasetKeys : FraudCount(k) > 0}) > 15
    /\ Len(cachedPatterns.patterns) = 15
    /\ \E i \in 1..Len(cachedPatterns.patterns) :
          /\ RecordCount(cachedPatterns.patterns[i].pattern) = 10
          /\ FraudCount(cachedPatterns.patterns[i].pattern) = 1
          /\ cachedPatterns.patterns[i].fraudRiskScore = 20
    /\ \E i \in 1..Len(cachedPatterns.patterns) :
          cachedPatterns.patterns[i].fraudRiskScore <= 40
    /\ Len(cachedPatterns.commonFraudIndicators) > 0

-----------------------------------------------------------------------------
(* Properties of the transaction routes *)

\* The time of the last fraud check of a route: the transaction it checked
\* was stored right after it, stamped with the clock
checkedAt == stored[Len(stored)].createdAt

RouteChecked == Called /\ stored # <<>>

\* History transactions inserted during the 24 hours before the check
CountCreatedInLastDay ==
    Cardinality({i \in HistoryIndexes :
                    /\ checkedAt - Hours(24) <= recentTransactions[i].createdAt
                    /\ recentTransactions[i].createdAt <= checkedAt})

\* History transactions whose date is no more than 24 hours before the check
CountDatedInLastDay ==
    Cardinality({i \in HistoryIndexes :
                    /\ recentTransactions[i].date # NaN
                    /\ checkedAt - recentTransactions[i].date <= Hours(24)})

\* C7, as stated: when at least 20 transactions of the user were created
\* through the API during the 24 hours before a fraud check, the check
\* triggers the velocity rule (riskScore >= 70), backdated or not.
C7_VelocityCountsSubmissions ==
    (RouteChecked /\ CountCreatedInLastDay >= 20) => fraudCheck.riskScore >= 70

\* C7, amended: velocity is measured by the date field of the stored
\* transactions against the clock: a fraud check of a route has
\* riskScore >= 70 when at least 20 transactions of the user are dated no
\* more than 24 hours before the check, and a riskScore of exactly 70 only
\* then, however many transactions were created during those 24 hours.
C7_VelocityCountsDates ==
    RouteChecked =>
        /\ CountDatedInLastDay >= 20 => fraudCheck.riskScore >= 70
        /\ fraudCheck.riskScore = 70 => CountDatedInLastDay >= 20

\* An import of current records after a backdated one: the check of its
\* last row sees 20 current transactions and the backdated one
C7_Witness ==
    /\ RouteChecked
    /\ CountDatedInLastDay >= 20
    /\ CountCreatedInLastDay > CountDatedInLastDay
    /\ fraudCheck.riskScore >= 70

-----------------------------------------------------------------------------
(* Properties of the routes that change transactions *)

\* The transactions storage holds for a user, in insertion order
TransactionsOf(st, userId) == SelectSeq(st, LAMBDA t : t.userId = userId)

\* The FinancialHealth record stored for the user is what
\* calculateFinancialHealth gives for the user's transactions and income
HealthCurrent(userId) ==
    /\ userExists(users, userId)
    /\ getFinancialHealth(financialHealth, userId) # NoExisting
    /\ getFinancialHealth(financialHealth, userId).metrics =
           calculateFinancialHealth(getTransactionsByUser(stored, userId),
                                    incomeOf(getUser(users, userId)))

\* C17: after every request that creates, updates or deletes a transaction of
\* a user, the FinancialHealth record stored for that user equals
\* calculateFinancialHealth of the user's current transactions and income
C17_HealthFollowsEveryMutation ==
    [][\A u \in UserIds :
          TransactionsOf(stored', u) # TransactionsOf(stored, u)
              => HealthCurrent(u)']_vars

\* C18: storage holds at most one FinancialHealth record per user, whatever
\* the order in which the lookups and the writes of the calls of
\* createOrUpdateFinancialHealth happen
C18_OneHealthRecordPerUser ==
    \A u \in UpsertUsers :
        Cardinality({i \in 1..Len(financialHealth) :
                        financialHealth[i].userId = u}) <= 1

\* C19: every transaction held in storage has a non-negative amount, after
\* any sequence of manual creations, uploads, receipt creations and updates
C19_StoredAmountsNonNegative ==
    \A i \in 1..Len(stored) : ~FLt(parseFloat(stored[i].amount), 0)

\* The request just served is a POST /api/transactions whose amount is no
\* number, or whose body lacks a required field
MalformedPost ==
    /\ request.route = "POST /api/transactions"
    /\ \/ parseFloat(request.body.amount) = NaN
       \/ ~(RequiredFields \subseteq request.body.present)

\* C20: a POST /api/transactions with an amount that is no number, or with a
\* required field missing, is answered with an error status and leaves the
\* stored transactions and financial health as they were
C20_MalformedPostIsRejected ==
    [][(requests' # requests /\ MalformedPost')
           => /\ res'.status >= 400
              /\ stored' = stored
              /\ financialHealth' = financialHealth]_vars

-----------------------------------------------------------------------------
(* Properties of the dataset cache over the life of a process *)

\* The dataset file is absent, holds no CSV, or holds one that does not parse
DatasetUnusable == ~datasetCsv.found \/ datasetCsv.csv # "parsed"

\* C21: the cache is null until startup, is assigned at most once and only
\* by an initializeDatasetPatterns that mined a dataset; with an absent,
\* unextractable or unparseable dataset the call returns null without
\* throwing and the cache stays null; the system status and the rule-based
\* report read a null cache and answer normally
C21_CacheWrittenOnceAtStartup ==
    /\ phase = "starting" => (cachedPatterns = NoPatterns /\ cacheWrites = 0)
    /\ cacheWrites <= 1
    /\ cachedPatterns # NoPatterns =>
           /\ cacheWrites = 1
           /\ ~DatasetUnusable
           /\ initReturn.value = cachedPatterns
    /\ (phase = "serving" /\ DatasetUnusable) =>
           /\ ~initReturn.threw
           /\ initReturn.value = NoPatterns
           /\ cachedPatterns = NoPatterns
    /\ (cachedPatterns = NoPatterns /\ systemStatus # NotAsked) =>
           /\ systemStatus.status = 200
           /\ ~systemStatus.datasetTrained
           /\ systemStatus.datasetInfo = NullInfo
    /\ (cachedPatterns = NoPatterns /\ analysis # NoAnalysis) =>
           /\ analysis # Thrown
           /\ pretrainedPatterns \in {NotRead, NoPatterns}
           /\ pretrainedPatterns = NoPatterns =>
                  \A i \in 1..Len(analysis.fraudPatterns) :
                      ~includes(analysis.fraudPatterns[i].pattern, "Dataset")

\* A process started on a dataset that does not parse has answered the
\* system status and given a rule-based report
C21_Witness ==
    /\ phase = "serving"
    /\ datasetCsv = MalformedDataset
    /\ systemStatus # NotAsked
    /\ analysis # NoAnalysis
    /\ pretrainedPatterns = NoPatterns

-----------------------------------------------------------------------------
(* Properties of the high-risk merchants *)

\* The records of the dataset that carry the merchant key
RecordsOfMerchant(m) ==
    {i \in 1..Len(datasetCsv.records) : merchantKey(datasetCsv.records[i]) = m}

FraudsOfMerchant(m) ==
    {i \in RecordsOfMerchant(m) : datasetCsv.records[i].isFraud = "1"}

\* C22: a merchant is in highRiskMerchants only if more than 5% of its
\* records are fraudulent, whatever its key, the key of the records without
\* Merchant and MerchantID included
C22_HighRiskOnlyAboveFivePercent ==
    Mined =>
        \A m \in cachedPatterns.highRiskMerchants :
            100 * Cardinality(FraudsOfMerchant(m))
                > 5 * Cardinality(RecordsOfMerchant(m))

-----------------------------------------------------------------------------
(* Properties of the rule-based report *)

\* analyzeFraudWithLLM returned the rule-based report
RuleBased ==
    /\ analysis # NoAnalysis
    /\ analysis # Thrown
    /\ pretrainedPatterns # NotRead

WeightOfLevel(level) ==
    CASE level = "critical" -> 100
      [] level = "high" -> 70
      [] level = "medium" -> 50
      [] level = "low" -> 20

\* The average of the weights of the report's patterns, 0 without a pattern
AverageWeight ==
    LET ps == analysis.fraudPatterns
        RECURSIVE Total(_)
        Total(i) == IF i = 0 THEN 0 ELSE WeightOfLevel(ps[i].riskLevel) + Total(i - 1)
    IN IF Len(ps) = 0 THEN <<0, 1>> ELSE Frac(Total(Len(ps)), Len(ps))

\* The percentage of the transactions flagged fraudulent
FlaggedShare ==
    LET flaggedCount == Cardinality({i \in 1..Len(analysisTransactions) :
                                        analysisTransactions[i].isFraudulent})
    IN IF Len(analysisTransactions) = 0 THEN <<0, 1>>
       ELSE Frac(100 * flaggedCount, Len(analysisTransactions))

\* 100 * |totalDebits - totalCredits| / (totalDebits + totalCredits), or 0
\* when the sum is 0
ImbalanceAsStated ==
    LET d == analysis.debitCreditAnalysis.totalDebits
        c == analysis.debitCreditAnalysis.totalCredits
    IN IF d = NaN \/ c = NaN THEN NaNFrac
       ELSE IF d + c = 0 THEN <<0, 1>>
       ELSE Percent(Frac(Abs(d - c), d + c))

\* The same, and 0 as well when a total is not a number
ImbalanceOrZero ==
    IF IsNaNFrac(ImbalanceAsStated) THEN <<0, 1>> ELSE ImbalanceAsStated

\* 0.40 * average weight + 0.35 * flagged share + 0.25 * imbalance
BlendOf(imbalance) ==
    FracAdd(Weighted(AverageWeight, 40),
            FracAdd(Weighted(FlaggedShare, 35), Weighted(imbalance, 25)))

RiskWithinRange ==
    /\ analysis.overallFraudRisk # NaN
    /\ analysis.overallFraudRisk >= 0
    /\ analysis.overallFraudRisk <= Units(100)

\* C23, as stated: overallFraudRisk of the rule-based report equals the
\* weighted blend of the average pattern weight, the flagged percentage and
\* the debit/credit imbalance, and lies in [0,100]
C23_RiskIsTheBlend ==
    RuleBased =>
        /\ Frac(analysis.overallFraudRisk, Units(1)) = BlendOf(ImbalanceAsStated)
        /\ RiskWithinRange

\* C23, amended: overallFraudRisk of the rule-based report is the weighted
\* blend rounded to one decimal place, the imbalance term counting 0 when
\* the sum of the totals is 0 or a total is not a number, and lies in [0,100]
C23_RiskIsTheBlendToOneDecimal ==
    RuleBased =>
        /\ analysis.overallFraudRisk =
               LET b == BlendOf(ImbalanceOrZero)
               IN Round(Frac(10 * b[1], b[2])) * (Units(1) \div 10)
        /\ RiskWithinRange

\* A rule-based report with patterns, flagged transactions and unequal
\* totals, whose blend has more than one decimal
C23_Witness ==
    /\ RuleBased
    /\ Len(analysis.fraudPatterns) > 1
    /\ FlaggedShare # <<0, 1>>
    /\ ImbalanceOrZero # <<0, 1>>
    /\ Frac(analysis.overallFraudRisk, Units(1)) # BlendOf(ImbalanceOrZero)

\* The recommendation added to the five fixed ones
SecurityRecommendation == "Consider updating account security and payment methods"

\* C24: the rule-based report recommends five things, and a sixth, the
\* account-security recommendation, exactly when its overallFraudRisk is at
\* least 70
C24_SixthRecommendationFromSeventy ==
    RuleBased =>
        LET recs == analysis.recommendations
        IN /\ Len(recs) \in {5, 6}
           /\ \A i \in 1..5 : recs[i] # "" /\ recs[i] # SecurityRecommendation
           /\ Len(recs) = 6 => recs[6] = SecurityRecommendation
           /\ Len(recs) = 6 <=> analysis.overallFraudRisk >= Units(70)

-----------------------------------------------------------------------------
(* Properties of the debit/credit analysis *)

\* The positions of the transactions of one type in the list analysed
SideOf(type) ==
    {i \in 1..Len(analysisTransactions) : analysisTransactions[i].type = type}

\* The amount the analysis takes a transaction at
SideAmount(i) == FAbs(parseFloat(analysisTransactions[i].amount))

\* The transactions of the side whose amount is a number
Numbered(type) == {i \in SideOf(type) : SideAmount(i) # NaN}

\* largest is the first transaction of the side that attains the maximum
\* amount of the side, or {amount 0, merchant "N/A"} for an empty side; on a
\* side without any amount that is a number it is one of the transactions
LargestOfSide(largest, type) ==
    IF SideOf(type) = {} THEN largest = [amount |-> 0, merchant |-> "N/A"]
    ELSE IF Numbered(type) = {}
    THEN \E i \in SideOf(type) :
            largest.merchant = analysisTransactions[i].merchant
    ELSE \E i \in Numbered(type) :
            /\ largest.amount = SideAmount(i)
            /\ largest.merchant = analysisTransactions[i].merchant
            /\ \A j \in Numbered(type) : SideAmount(j) <= SideAmount(i)
            /\ \A j \in Numbered(type) : j < i => SideAmount(j) < SideAmount(i)

\* C25: the debit/credit analysis counts the expense-type transactions as
\* debits and the income-type ones as credits; largestDebit and largestCredit
\* are the first transaction of the side attaining its maximum amount, or
\* {0, "N/A"} for an empty side; with or without an API key
C25_SidesAndLargest ==
    (analysis # NoAnalysis /\ analysis # Thrown) =>
        LET dca == analysis.debitCreditAnalysis
        IN /\ dca.debitCount = Cardinality(SideOf("expense"))
           /\ dca.creditCount = Cardinality(SideOf("income"))
           /\ LargestOfSide(dca.largestDebit, "expense")
           /\ LargestOfSide(dca.largestCredit, "income")

-----------------------------------------------------------------------------
(* Properties of the rule-based pattern list *)

\* s begins with prefix
StartsWith(s, prefix) ==
    Len(s) >= Len(prefix) /\ SubSeq(s, 1, Len(prefix)) = prefix

\* The patterns of the report whose text begins with prefix
PatternsNamed(prefix) ==
    {i \in 1..Len(analysis.fraudPatterns) :
        StartsWith(analysis.fraudPatterns[i].pattern, prefix)}

\* The transactions analysed that are dated within the 24 hours before now
InLastDay ==
    {i \in 1..Len(analysisTransactions) :
        /\ analysisTransactions[i].date # NaN
        /\ analysisTransactions[i].date >= now - Hours(24)
        /\ analysisTransactions[i].date <= now}

\* The transactions analysed above 50,000
AboveFiftyThousand ==
    {i \in 1..Len(analysisTransactions) :
        FGt(FAbs(parseFloat(analysisTransactions[i].amount)), Units(50000))}

\* A transaction's merchant and its amount rounded to the nearest 100
MerchantAndHundreds(i) ==
    LET a == parseFloat(analysisTransactions[i].amount)
    IN <<analysisTransactions[i].merchant,
         IF a = NaN THEN NaN
         ELSE ((2 * a + Units(100)) \div (2 * Units(100))) * 100>>

GroupOf(key) ==
    {i \in 1..Len(analysisTransactions) : MerchantAndHundreds(i) = key}

\* The groups of more than 2 transactions
RepeatedGroups ==
    {key \in {MerchantAndHundreds(i) : i \in 1..Len(analysisTransactions)} :
        Cardinality(GroupOf(key)) > 2}

FlaggedOnes ==
    {i \in 1..Len(analysisTransactions) : analysisTransactions[i].isFraudulent}

\* C26: with a null dataset cache the rule-based pattern list holds a
\* velocity pattern iff more than 15 transactions fall in the trailing 24
\* hours, one large-transaction pattern iff some transaction exceeds 50,000
\* (high iff more than 3 do, else medium), one repeated-transaction pattern
\* for each group of more than 2 transactions of one merchant and rounded
\* amount (high iff more than 5, else medium), one critical pattern iff a
\* transaction is flagged, and nothing else
C26_PatternListWithoutDataset ==
    (RuleBased /\ pretrainedPatterns = NoPatterns) =>
        LET ps == analysis.fraudPatterns
            velocity == PatternsNamed("High transaction velocity")
            large == PatternsNamed("Large transactions detected")
            repeated == PatternsNamed("Repeated similar transactions: ")
            flaggedOnes == PatternsNamed("Flagged transactions detected")
        IN /\ Cardinality(velocity) = IF Cardinality(InLastDay) > 15 THEN 1 ELSE 0
           /\ Cardinality(large) = IF AboveFiftyThousand # {} THEN 1 ELSE 0
           /\ \A i \in large :
                 ps[i].riskLevel = IF Cardinality(AboveFiftyThousand) > 3
                                   THEN "high" ELSE "medium"
           /\ Cardinality(repeated) = Cardinality(RepeatedGroups)
           /\ \A key \in RepeatedGroups :
                 \E i \in repeated :
                     /\ ps[i].pattern = "Repeated similar transactions: " \o key[1]
                     /\ ps[i].frequency = Cardinality(GroupOf(key))
                     /\ ps[i].riskLevel = IF Cardinality(GroupOf(key)) > 5
                                          THEN "high" ELSE "medium"
           /\ Cardinality(flaggedOnes) = IF FlaggedOnes # {} THEN 1 ELSE 0
           /\ \A i \in flaggedOnes : ps[i].riskLevel = "critical"
           /\ Len(ps) = Cardinality(velocity) + Cardinality(large)
                        + Cardinality(repeated) + Cardinality(flaggedOnes)

-----------------------------------------------------------------------------
(* Properties of the verdict of detectFraud *)

\* C27: the verdict is fraudulent only if the candidate's amount exceeds
\* 100,000 or the duplicate rule triggered; the large-amount rule (55), the
\* velocity rules (70, 80) and the first-time-merchant rule (40), alone or
\* together, never give a fraudulent verdict, the score being their maximum.
C27_FraudulentOnlyByVeryLargeOrDuplicate ==
    Called =>
        /\ fraudCheck.isFraudulent =>
              \/ (candidateAmount # NaN /\ candidateAmount > Units(100000))
              \/ 90 \in PushedScores
        /\ (PushedScores # {} /\ PushedScores \subseteq {55, 70, 80, 40}) =>
              /\ ~fraudCheck.isFraudulent
              /\ fraudCheck.riskScore = SetMax(PushedScores)
              /\ fraudCheck.riskScore < 85

\* The four lesser rules triggered together and the verdict was not fraudulent.
C27_Witness ==
    /\ Called
    /\ PushedScores = {55, 70, 80, 40}
    /\ fraudCheck.riskScore = 80
    /\ ~fraudCheck.isFraudulent

-----------------------------------------------------------------------------
(* Properties of the order of the fraud check and the insertion *)

\* The request just served created one transaction through POST
\* /api/transactions
PostCreated ==
    /\ request.route = "POST /api/transactions"
    /\ res.status = 201

\* The request just served was an upload
Uploaded == request.route = "POST /api/transactions/upload"

\* Rows j and k of the uploaded file have the same merchant and amount and
\* no date
SameUndatedRows(j, k) ==
    /\ request.records[j].merchant = request.records[k].merchant
    /\ request.records[j].amount = request.records[k].amount
    /\ request.records[j].date.text = ""
    /\ request.records[k].date.text = ""

\* C28: a created transaction is checked against the history read before it
\* is inserted, and is stored with the verdict of that check; row k of an
\* upload is checked against a history holding rows 1..k-1 of the upload, so
\* that of two rows with the same merchant and amount and no date the
\* second is stored as fraudulent
C28_CheckedBeforePersisted ==
    [][(requests' # requests) =>
          /\ PostCreated' =>
                /\ recentTransactions' =
                       getTransactionsByUser(stored, request'.body.userId)
                /\ Len(stored') = Len(stored) + 1
                /\ stored'[Len(stored')].isFraudulent =
                       detectFraud(transaction', recentTransactions').isFraudulent
          /\ Uploaded' =>
                /\ Len(stored') = Len(stored) + Len(request'.records)
                /\ recentTransactions' =
                       getTransactionsByUser(
                           SubSeq(stored', 1, Len(stored') - 1),
                           request'.userId)
                /\ \A k \in 1..Len(request'.records) :
                      \A j \in 1..(k - 1) :
                          SameUndatedRows(j, k)' =>
                              stored'[Len(stored) + k].isFraudulent]_vars

-----------------------------------------------------------------------------
(* Properties of requests served at the same time *)

\* The transaction request r stored
PersistedBy(r) ==
    stored[CHOOSE i \in 1..Len(stored) : stored[i].id = posts[r].transaction]

\* Requests r1 and r2 were both answered 201 and carried the same user,
\* merchant and amount, both dated now
SamePostsAnswered(r1, r2) ==
    /\ r1 # r2
    /\ posts[r1].pc = "answered"
    /\ posts[r2].pc = "answered"
    /\ posts[r1].data.userId = posts[r2].data.userId
    /\ posts[r1].data.merchant = posts[r2].data.merchant
    /\ posts[r1].data.amount = posts[r2].data.amount
    /\ posts[r1].data.date.time = now
    /\ posts[r2].data.date.time = now

\* C29: of two POST /api/transactions requests of one user with the same
\* merchant and amount, both dated now, at least one stores its transaction
\* as fraudulent, however their storage reads and writes interleave
C29_DuplicateCaughtUnderOverlap ==
    \A r1, r2 \in PostIds :
        SamePostsAnswered(r1, r2) =>
            PersistedBy(r1).isFraudulent \/ PersistedBy(r2).isFraudulent

-----------------------------------------------------------------------------
(* Properties of the financial health the routes store *)

\* The neutral metrics: score and the five components all 50
AllFifty ==
    [score |-> 50, incomeStability |-> 50, expenseRatio |-> 50,
     savingsRate |-> 50, debtRatio |-> 50, liquidity |-> 50]

\* C30: starting from empty storage, after any sequence of requests no user
\* has a monthly income, and every FinancialHealth record stored has score
\* and all five components equal to 50
C30_StoredHealthIsNeutral ==
    /\ \A u \in users : u.monthlyIncome = NullDecimal /\ incomeOf(u) = 0
    /\ \A i \in 1..Len(financialHealth) :
          \A f \in DOMAIN AllFifty : financialHealth[i].metrics[f] = AllFifty[f]

\* A health record stored for a user who holds an income and an expense
C30_Witness ==
    /\ financialHealth # <<>>
    /\ \E i, j \in 1..Len(stored) :
          /\ stored[i].userId = financialHealth[1].userId
          /\ stored[j].userId = financialHealth[1].userId
          /\ stored[i].type = "income"
          /\ stored[j].type = "expense"
          /\ parseFloat(stored[i].amount) # NaN
          /\ parseFloat(stored[j].amount) # NaN
    /\ financialHealth[1].metrics.score = 50

=============================================================================
